---- MODULE Spec2Model ----
(***************************************************************************)
(* Model of ibkr_report: the trade ledger of Report.add_trades (report.py, *)
(* trade.py), the exchange rates of ExchangeRates (exchangerates.py), the  *)
(* cache and the helpers of tools.py, and the Storage classes (storage.py).*)
(* Spec runs the ledger, RateSpec the exchange rates, StoreSpec the cache  *)
(* and a Storage object, SelectSpec the selection of the backend and       *)
(* ProcessSpec the construction of Reports and their rates by one process, *)
(* ThreadSpec the cache under two threads.                                 *)
(*                                                                         *)
(* Two Report objects are fed the same rows, one constructed with          *)
(* use_deemed_acquisition_cost=True and one with False, so that            *)
(* statements comparing the two settings are state predicates.             *)
(***************************************************************************)
EXTENDS Integers, Sequences, FiniteSets, TLC

VARIABLES
    rates,            \* ExchangeRates.rates: date -> currency -> rate
    rep,              \* rep[dc]: the Report built with deemed_acquisition_cost = dc
    pc,               \* pc[dc]: "idle" | "reading" | "raised"  (position in add_trades)
    err,              \* err[dc]: error raised by the current / last add_trades call, "" if none
    pre,              \* pre[dc]: the Report's attributes when the current / last call began
    last,             \* the last event: the row read, what each Report took it for and did
                      \* with it, and each Report as it was before the event
    opened,           \* opened[dc]: <<>>, or <<[row, at]>>: the last Trade row the Report
                      \* accepted after the last header row, and Len(details) at that time
    clean,            \* no add_trades call has raised so far, on either Report
    steps,            \* number of add_trades calls begun plus Trade / ClosedLot rows accepted
    backtrack,        \* the module attribute MAX_BACKTRACK_DAYS as get_rate reads it
    dl,               \* download_official_rates, until the next call on the object:
                      \* position, retries, fetches made, the table when it began
    lookup,           \* <<>>, or the last get_rate call since the table last changed
    made,             \* the ExchangeRates objects constructed so far on this date: how
                      \* many calls, how many objects, and what the last call did
    cache,            \* tools._cache: the sequence of <<key, value>> in insertion order
    maxcache,         \* the module attribute tools._MAXCACHE as Cache.set reads it
    storage,          \* the Storage object: its class and its `cache` attribute
    files,            \* what the backend of the Storage object holds: filename -> bytes
    call,             \* the last Cache / Storage call: name, arguments, return value, and
                      \* the cache as it was before the call
    ghost,            \* the history of the calls: the table last saved under each
                      \* filename, the keys ever saved or set, the number of calls,
                      \* and whether all of them were Storage.save or Storage.load
    config,           \* the module attributes BUCKET_ID and STORAGE_TYPE of storage.py
    selected,         \* the last get_storage call: its argument and what came of it
    thread            \* the threads in Cache.set and Cache.get: thread.at[t] is the
                      \* position and the locals of thread t; the keys whose set has
                      \* returned, the keys deleted by an eviction since, the calls
                      \* begun and whether a call has raised

ledgerVars == <<rep, pc, err, pre, last, opened, clean, steps>>
rateVars == <<backtrack, dl, lookup, made>>
storeVars == <<cache, maxcache, storage, files, call, ghost, config, selected, thread>>
vars ==
    <<rates, rep, pc, err, pre, last, opened, clean, steps, backtrack, dl, lookup, made,
      cache, maxcache, storage, files, call, ghost, config, selected, thread>>

(***************************************************************************)
(* decimal.Decimal values.  All values the ledger computes are rational,   *)
(* except for the two constants Decimal(0.8) and Decimal(0.6), which are   *)
(* the binary doubles nearest to 0.8 and 0.6:                              *)
(*     Decimal(0.8) = 4/5 + 2e      Decimal(0.6) = 3/5 - e                 *)
(* with e = 1 / (5 * 2^53).  A value is <<a, b, d>>, standing for          *)
(* (a + b*e) / d with d > 0 and gcd(a, b, d) = 1; e is smaller than any    *)
(* difference of the rationals that occur, so the order is lexicographic.  *)
(* The rounding of the 28-digit decimal context is not modelled.           *)
(***************************************************************************)
RECURSIVE GCD(_, _)
GCD(x, y) == IF y = 0 THEN x ELSE GCD(y, x % y)

Abs(n) == IF n < 0 THEN -n ELSE n

Norm(a, b, d) ==
    LET g == GCD(GCD(Abs(a), Abs(b)), Abs(d))
        s == IF d < 0 THEN -1 ELSE 1
    IN  <<(s * a) \div g, (s * b) \div g, (s * d) \div g>>

Dec(n) == <<n, 0, 1>>
Frac(n, d) == Norm(n, 0, d)
DAdd(x, y) == Norm(x[1] * y[3] + y[1] * x[3], x[2] * y[3] + y[2] * x[3], x[3] * y[3])
DNeg(x) == <<-x[1], -x[2], x[3]>>
DSub(x, y) == DAdd(x, DNeg(y))
\* at most one factor carries an e-part in the code's products
DMul(x, y) == Norm(x[1] * y[1], x[1] * y[2] + x[2] * y[1], x[3] * y[3])
\* the divisor is always a plain rational, and not zero
DDiv(x, y) == Norm(x[1] * y[3], x[2] * y[3], x[3] * y[1])
DLt(x, y) ==
    LET l == x[1] * y[3]
        r == y[1] * x[3]
    IN  \/ l < r
        \/ l = r /\ x[2] * y[3] < y[2] * x[3]
DLe(x, y) == ~DLt(y, x)
DIsZero(x) == x[1] = 0 /\ x[2] = 0
DAbs(x) == IF DLt(x, Dec(0)) THEN DNeg(x) ELSE x
DMin(x, y) == IF DLt(y, x) THEN y ELSE x

(***************************************************************************)
(* Results of Python calls that may raise: Ok(v) or Raise(kind).           *)
(* The first six kinds are ValueError, the last two are not.               *)
(***************************************************************************)
Ok(v) == [ok |-> TRUE, val |-> v]
\* msg: the values the error message names
RaiseMsg(e, msg) == [ok |-> FALSE, err |-> e, msg |-> msg]
Raise(e) == RaiseMsg(e, <<>>)

\* Decimal / Decimal: decimal.DivisionByZero for a divisor of zero, and
\* decimal.InvalidOperation for 0 / 0
Divide(x, y) ==
    IF DIsZero(y)
    THEN Raise(IF DIsZero(x) THEN "InvalidOperation" ELSE "DivisionByZero")
    ELSE Ok(DDiv(x, y))

ConfigurationErrors == {"InvalidStorageType", "BucketWithoutCloudStorage"}

ValueErrors ==
    {"ClosedLotWithoutTrade", "SymbolMismatch", "QuantityMismatch", "InvalidDate",
     "RateNotFound", "InvalidEncoding"}
OtherErrors == {"InvalidOperation", "DivisionByZero"}

(***************************************************************************)
(* Decimal(str): the decimal literals that occur in the rows and in the    *)
(* rate table; any other string raises decimal.InvalidOperation.           *)
(***************************************************************************)
DecimalLiteral ==
    [s \in {"0", "1", "2", "5", "-5", "10", "-10", "30", "300", "1000", "-2", "1.25"} |->
        CASE s = "0" -> Dec(0)
          [] s = "1" -> Dec(1)
          [] s = "2" -> Dec(2)
          [] s = "5" -> Dec(5)
          [] s = "-5" -> Dec(-5)
          [] s = "10" -> Dec(10)
          [] s = "-10" -> Dec(-10)
          [] s = "30" -> Dec(30)
          [] s = "300" -> Dec(300)
          [] s = "1000" -> Dec(1000)
          [] s = "-2" -> Dec(-2)
          [] s = "1.25" -> Frac(5, 4)]

\* re.sub(r"[,\s]+", "", number_str) on the cells that occur
StripSeparators(s) ==
    CASE s = "1,000" -> "1000"
      [] s = " 30" -> "30"
      [] OTHER -> s

decimal_cleanup(number_str) ==
    LET t == StripSeparators(number_str)
    IN  IF t \in DOMAIN DecimalLiteral THEN Ok(DecimalLiteral[t]) ELSE Raise("InvalidOperation")

(***************************************************************************)
(* datetime.date: <<year, month, day>>, ordered by its proleptic Gregorian *)
(* ordinal as date.toordinal() gives it.                                   *)
(***************************************************************************)
IsLeap(y) == y % 4 = 0 /\ (y % 100 # 0 \/ y % 400 = 0)

DaysInMonth(y, m) ==
    CASE m \in {1, 3, 5, 7, 8, 10, 12} -> 31
      [] m \in {4, 6, 9, 11} -> 30
      [] OTHER -> IF IsLeap(y) THEN 29 ELSE 28

RECURSIVE DaysBeforeMonth(_, _)
DaysBeforeMonth(y, m) == IF m = 1 THEN 0 ELSE DaysBeforeMonth(y, m - 1) + DaysInMonth(y, m - 1)

ToOrdinal(d) ==
    LET p == d[1] - 1
    IN  p * 365 + p \div 4 - p \div 100 + p \div 400 + DaysBeforeMonth(d[1], d[2]) + d[3]

IsDate(d) == d[2] \in 1..12 /\ d[3] \in 1..DaysInMonth(d[1], d[2])

(***************************************************************************)
(* datetime.strptime over DATE_STR_FORMATS, on the Date/Time cells that    *)
(* occur: "%Y-%m-%d, %H:%M:%S", "%Y-%m-%d %H:%M:%S", "%Y-%m-%d".           *)
(***************************************************************************)
DateTable ==
    [s \in {"2010-03-02", "2010-03-03", "2020-03-02, 10:00:00", "2020-03-02",
            "2020-03-04 09:00:00", "2020-03-04", "2020-03-20", "2020-03-03",
            "2020-02-27", "2020-02-26", "2020-02-29", "2010-02-28", "2010-03-01"} |->
        CASE s = "2010-03-02" -> <<2010, 3, 2>>
          [] s = "2020-02-29" -> <<2020, 2, 29>>
          [] s = "2010-02-28" -> <<2010, 2, 28>>
          [] s = "2010-03-01" -> <<2010, 3, 1>>
          [] s = "2020-03-03" -> <<2020, 3, 3>>
          [] s = "2020-02-27" -> <<2020, 2, 27>>
          [] s = "2020-02-26" -> <<2020, 2, 26>>
          [] s = "2010-03-03" -> <<2010, 3, 3>>
          [] s = "2020-03-02, 10:00:00" -> <<2020, 3, 2>>
          [] s = "2020-03-02" -> <<2020, 3, 2>>
          [] s = "2020-03-04 09:00:00" -> <<2020, 3, 4>>
          [] s = "2020-03-04" -> <<2020, 3, 4>>
          [] s = "2020-03-20" -> <<2020, 3, 20>>]

get_date(date_str) ==
    IF date_str \in DOMAIN DateTable THEN Ok(DateTable[date_str]) ELSE Raise("InvalidDate")

\* re.sub(r"(\d\d\d\d-\d\d-\d\d),? ([0-9:]+)", r"\1", date_str)
date_without_time(date_str) ==
    CASE date_str = "2020-03-02, 10:00:00" -> "2020-03-02"
      [] date_str = "2020-03-04 09:00:00" -> "2020-03-04"
      [] OTHER -> date_str

\* variant: a day the destination year lacks becomes the day after
add_years_next_day(d_obj, years) ==
    LET target == <<d_obj[1] + years, d_obj[2], d_obj[3]>>
    IN  IF IsDate(target)
        THEN ToOrdinal(target)
        ELSE ToOrdinal(<<d_obj[1] + years, 3, 1>>)

\* the ordinal of add_years(d_obj, years)
add_years(d_obj, years) ==
    LET target == <<d_obj[1] + years, d_obj[2], d_obj[3]>>
    IN  IF IsDate(target)
        THEN ToOrdinal(target)
        ELSE ToOrdinal(d_obj)
             + (ToOrdinal(<<d_obj[1] + years, 3, 1>>) - ToOrdinal(<<d_obj[1], 3, 1>>))

(***************************************************************************)
(* ExchangeRates.get_rate.  The table is keyed by the ordinal of the ISO   *)
(* date of the key; a value is the rate string of the feed.                *)
(***************************************************************************)
MAX_BACKTRACK_DAYS == 7

EcbRates ==
    (ToOrdinal(<<2010, 3, 2>>) :> ("USD" :> "1.25"))
    @@ (ToOrdinal(<<2020, 3, 2>>) :> ("USD" :> "2"))

NoRates == [c \in {} |-> ""]

\* search_date when the while loop of get_rate is left: the date whose rates are
\* used, or the date the search ended at
RECURSIVE SearchDate(_, _, _, _)
SearchDate(currency_from, currency_to, original_date, search_date) ==
    IF original_date - search_date < backtrack
    THEN LET date_rates == IF search_date \in DOMAIN rates THEN rates[search_date] ELSE NoRates
         IN  IF /\ (currency_from = "EUR" \/ currency_from \in DOMAIN date_rates)
                /\ (currency_to = "EUR" \/ currency_to \in DOMAIN date_rates)
             THEN search_date
             ELSE SearchDate(currency_from, currency_to, original_date, search_date - 1)
    ELSE search_date

RECURSIVE SearchRate(_, _, _, _)
\* variant: a conversion to EUR divides the wrong way round
SearchRate_inverted_to_eur(currency_from, currency_to, original_date, search_date) ==
    IF original_date - search_date < backtrack
    THEN LET date_rates == IF search_date \in DOMAIN rates THEN rates[search_date] ELSE NoRates
         IN  IF currency_to = "EUR" /\ currency_from \in DOMAIN date_rates
             THEN Ok(DecimalLiteral[date_rates[currency_from]])
             ELSE IF currency_to # "EUR" /\ currency_to \in DOMAIN date_rates
                     /\ (currency_from = "EUR" \/ currency_from \in DOMAIN date_rates)
             THEN Divide(DecimalLiteral[date_rates[currency_to]],
                          IF currency_from = "EUR" THEN Dec(1)
                          ELSE DecimalLiteral[date_rates[currency_from]])
             ELSE SearchRate(currency_from, currency_to, original_date, search_date - 1)
    ELSE RaiseMsg("RateNotFound", <<currency_from, currency_to, original_date, search_date>>)

\* the EUR rate of one currency by a backward search of its own
RECURSIVE RateOf(_, _, _)
RateOf(currency, original_date, search_date) ==
    IF currency = "EUR" THEN Ok(Dec(1))
    ELSE IF original_date - search_date < backtrack
    THEN IF search_date \in DOMAIN rates /\ currency \in DOMAIN rates[search_date]
         THEN Ok(DecimalLiteral[rates[search_date][currency]])
         ELSE RateOf(currency, original_date, search_date - 1)
    ELSE RaiseMsg("RateNotFound", <<currency, original_date, search_date>>)

\* variant: each currency of the pair is resolved by a search of its own
SearchRate_independent(currency_from, currency_to, original_date, search_date) ==
    IF RateOf(currency_from, original_date, search_date).ok
       /\ RateOf(currency_to, original_date, search_date).ok
    THEN Divide(RateOf(currency_to, original_date, search_date).val,
                 RateOf(currency_from, original_date, search_date).val)
    ELSE RaiseMsg("RateNotFound",
                  <<currency_from, currency_to, original_date, original_date - backtrack>>)

\* variant: the window also takes in the day MAX_BACKTRACK_DAYS before the date
SearchRate_inclusive_window(currency_from, currency_to, original_date, search_date) ==
    IF original_date - search_date <= backtrack
    THEN LET date_rates == IF search_date \in DOMAIN rates THEN rates[search_date] ELSE NoRates
         IN  IF /\ (currency_from = "EUR" \/ currency_from \in DOMAIN date_rates)
                /\ (currency_to = "EUR" \/ currency_to \in DOMAIN date_rates)
             THEN Divide(IF currency_to = "EUR" THEN Dec(1)
                          ELSE DecimalLiteral[date_rates[currency_to]],
                          IF currency_from = "EUR" THEN Dec(1)
                          ELSE DecimalLiteral[date_rates[currency_from]])
             ELSE SearchRate(currency_from, currency_to, original_date, search_date - 1)
    ELSE RaiseMsg("RateNotFound", <<currency_from, currency_to, original_date, search_date>>)

\* variant: the search goes forward from the date
SearchRate_forward(currency_from, currency_to, original_date, search_date) ==
    IF search_date - original_date < backtrack
    THEN LET date_rates == IF search_date \in DOMAIN rates THEN rates[search_date] ELSE NoRates
             has_from == currency_from = "EUR" \/ currency_from \in DOMAIN date_rates
             has_to == currency_to = "EUR" \/ currency_to \in DOMAIN date_rates
             from_rate == IF currency_from = "EUR" THEN Dec(1)
                          ELSE DecimalLiteral[date_rates[currency_from]]
             to_rate == IF currency_to = "EUR" THEN Dec(1)
                        ELSE DecimalLiteral[date_rates[currency_to]]
         IN  IF has_from /\ has_to
             THEN Divide(to_rate, from_rate)
             ELSE SearchRate(currency_from, currency_to, original_date, search_date + 1)
    ELSE RaiseMsg("RateNotFound", <<currency_from, currency_to, original_date, search_date>>)

SearchRate(currency_from, currency_to, original_date, search_date) ==
    IF original_date - search_date < backtrack
    THEN LET date_rates == IF search_date \in DOMAIN rates THEN rates[search_date] ELSE NoRates
             has_from == currency_from = "EUR" \/ currency_from \in DOMAIN date_rates
             has_to == currency_to = "EUR" \/ currency_to \in DOMAIN date_rates
             from_rate == IF currency_from = "EUR" THEN Dec(1)
                          ELSE DecimalLiteral[date_rates[currency_from]]
             to_rate == IF currency_to = "EUR" THEN Dec(1)
                        ELSE DecimalLiteral[date_rates[currency_to]]
         IN  IF has_from /\ has_to
             THEN Divide(to_rate, from_rate)
             ELSE SearchRate(currency_from, currency_to, original_date, search_date - 1)
    ELSE RaiseMsg("RateNotFound", <<currency_from, currency_to, original_date, search_date>>)

\* variant: the date is parsed before the currencies are compared
get_rate_date_first(currency_from, currency_to, date_str) ==
    LET d == get_date(date_str)
    IN  IF ~d.ok THEN d
        ELSE IF currency_from = currency_to THEN Ok(Dec(1))
        ELSE SearchRate(currency_from, currency_to, ToOrdinal(d.val), ToOrdinal(d.val))

get_rate(currency_from, currency_to, date_str) ==
    IF currency_from = currency_to
    THEN Ok(Dec(1))
    ELSE LET d == get_date(date_str)
         IN  IF ~d.ok THEN d
             ELSE SearchRate(currency_from, currency_to, ToOrdinal(d.val), ToOrdinal(d.val))

(***************************************************************************)
(* ExchangeRates.add_to_exchange_rates and download_official_rates.  A     *)
(* rates file is the sequence of rows csv.reader yields, a row a sequence  *)
(* of cells; the downloaded archive is a sequence of rates files.          *)
(***************************************************************************)
MAX_HTTP_RETRIES == 5

\* re.match(r"^\d\d\d\d-\d\d-\d\d$", s) on the first cells of the rows of the model
IsoDateStrings ==
    {"2010-03-02", "2010-03-03", "2020-03-02", "2020-03-03", "2020-03-04", "2020-03-20",
     "2020-02-27", "2020-02-26"}

\* tools.is_number: float(number_str) succeeds
is_number(number_str) == number_str \in DOMAIN DecimalLiteral

\* variant: only the first row whose first cell is "Date" sets `currencies`
CurrenciesAt_first_header(rates_file, i) ==
    LET headers == {j \in 1..i : rates_file[j][1] = "Date"}
    IN  IF headers = {} THEN <<>>
        ELSE rates_file[CHOOSE j \in headers : \A k \in headers : j <= k]

\* `currencies` when row i is read: the last row up to i whose first cell is "Date"
CurrenciesAt(rates_file, i) ==
    LET headers == {j \in 1..i : rates_file[j][1] = "Date"}
    IN  IF headers = {} THEN <<>>
        ELSE rates_file[CHOOSE j \in headers : \A k \in headers : k <= j]

\* date_rates of one row: zip(currencies, items) filtered by is_number, a later
\* column of the same name replacing an earlier one
DateRates(currencies, items) ==
    LET cols == {k \in 1..Len(items) : k <= Len(currencies) /\ is_number(items[k])}
    IN  [cur \in {currencies[k] : k \in cols} |->
            items[CHOOSE k \in cols :
                    currencies[k] = cur /\ \A m \in cols : currencies[m] = cur => m <= k]]

RowRates(rates_file, i) ==
    IF CurrenciesAt(rates_file, i) # <<>> /\ rates_file[i][1] \in IsoDateStrings
    THEN DateRates(CurrenciesAt(rates_file, i), rates_file[i])
    ELSE NoRates

\* the local `rates` when the file is exhausted: a later row of the same date
\* replaces an earlier one, a row without a numeric cell adds nothing
FileRates(rates_file) ==
    LET rows == {i \in 1..Len(rates_file) : RowRates(rates_file, i) # NoRates}
    IN  [d \in {ToOrdinal(DateTable[rates_file[i][1]]) : i \in rows} |->
            RowRates(rates_file,
                     CHOOSE i \in rows :
                         /\ ToOrdinal(DateTable[rates_file[i][1]]) = d
                         /\ \A j \in rows :
                               ToOrdinal(DateTable[rates_file[j][1]]) = d => j <= i)]

\* variant: the currencies of a date in both tables are merged
add_to_exchange_rates_by_currency(self_rates, rates_file) ==
    [d \in DOMAIN self_rates \cup DOMAIN FileRates(rates_file) |->
        IF d \notin DOMAIN FileRates(rates_file) THEN self_rates[d]
        ELSE IF d \notin DOMAIN self_rates THEN FileRates(rates_file)[d]
        ELSE FileRates(rates_file)[d] @@ self_rates[d]]

\* self.rates = {**self.rates, **rates}
add_to_exchange_rates(self_rates, rates_file) ==
    [d \in DOMAIN self_rates \cup DOMAIN FileRates(rates_file) |->
        IF d \in DOMAIN FileRates(rates_file) THEN FileRates(rates_file)[d] ELSE self_rates[d]]

\* for filename in rates_zip.namelist(): add_to_exchange_rates
RECURSIVE ParseArchive(_, _, _)
ParseArchive(self_rates, rates_zip, n) ==
    IF n = 0 THEN self_rates
    ELSE add_to_exchange_rates(ParseArchive(self_rates, rates_zip, n - 1), rates_zip[n])

NoDownload == [pc |-> "idle", retries |-> 0, fetches |-> 0, before |-> <<>>]

\* no ExchangeRates object has been constructed
NoneMade ==
    [calls |-> 0, built |-> 0, earlier |-> 0, by |-> "none", ok |-> TRUE,
     download |-> FALSE, read |-> FALSE]

(***************************************************************************)
(* tools.Cache and storage.Storage.  A table given to a Storage object is  *)
(* keyed by the date string, as the dict the code saves.                   *)
(***************************************************************************)
MAXCACHE == 10

EmptyTable == [d \in {} |-> <<>>]
NoCall == [name |-> "none", key |-> "", content |-> EmptyTable, ret |-> EmptyTable,
           cache |-> <<>>]
NoHistory == [saved |-> EmptyTable, touched |-> {}, calls |-> 0, plain |-> TRUE]

\* the threads that serve requests, none of them in a call of the cache
Threads == {1, 2}
Idle == [pc |-> "idle", key |-> "", victim |-> ""]
NoThreads ==
    [at |-> [t \in Threads |-> Idle], set |-> {}, evicted |-> {}, calls |-> 0,
     raised |-> FALSE]

\* definitions.py: BUCKET_ID and STORAGE_TYPE when the environment sets neither
DefaultConfig == [BUCKET_ID |-> "", STORAGE_TYPE |-> "disabled"]
NoSelection == <<>>

\* the cache, the Storage object and its backend before any call
StoreAtRest ==
    /\ cache = <<>>
    /\ maxcache = MAXCACHE
    /\ storage = [class |-> "StorageDisabled", cache |-> TRUE]
    /\ files = EmptyTable
    /\ call = NoCall
    /\ ghost = NoHistory
    /\ thread = NoThreads
    /\ config = DefaultConfig
    /\ selected = NoSelection

CacheKeys(c) == {c[i][1] : i \in 1..Len(c)}

\* Cache.get: the value, or None
Cache_get(c, key) ==
    IF key \in CacheKeys(c)
    THEN [none |-> FALSE, val |-> c[CHOOSE i \in 1..Len(c) : c[i][1] = key][2]]
    ELSE [none |-> TRUE, val |-> EmptyTable]

\* _cache[key] = value: a key that is present keeps its place
Assign(c, key, value) ==
    IF key \in CacheKeys(c)
    THEN [i \in 1..Len(c) |-> IF c[i][1] = key THEN <<key, value>> ELSE c[i]]
    ELSE Append(c, <<key, value>>)

\* variant: the entry inserted last is the one evicted
Evict_newest(c) == IF c = <<>> THEN c ELSE SubSeq(c, 1, Len(c) - 1)

\* del _cache[next(iter(_cache))], StopIteration being passed over
Evict(c) == IF c = <<>> THEN c ELSE Tail(c)

\* variant: nothing is evicted
Cache_set_unbounded(c, key, value) == Assign(c, key, value)

\* Cache.set
Cache_set(c, key, value) ==
    IF key \notin CacheKeys(c) /\ Len(c) >= maxcache
    THEN Assign(Evict(c), key, value)
    ELSE Assign(c, key, value)

\* json.dumps: the object as its set of members; compress wraps the text
Dumps(data) ==
    {<<d, {<<cur, data[d][cur]>> : cur \in DOMAIN data[d]}>> : d \in DOMAIN data}

Loads(text) ==
    [d \in {member[1] : member \in text} |->
        LET object == (CHOOSE member \in text : member[1] = d)[2]
        IN  [cur \in {pair[1] : pair \in object} |->
                (CHOOSE pair \in object : pair[1] = cur)[2]]]

encode(data) == [xz |-> Dumps(data)]
decode(data) == Loads(data.xz)

PersistentClasses == {"LocalStorage", "AmazonS3", "GoogleCloudStorage"}
StorageClasses == PersistentClasses \cup {"StorageDisabled"}

\* variant: the backend keeps one content for all its files
BackendSave_one_content(self, content, filename) ==
    IF self.class = "StorageDisabled" THEN files
    ELSE [f \in DOMAIN files \cup {filename} |-> encode(content)]

\* the files of the backend after _save
BackendSave(self, content, filename) ==
    IF self.class = "StorageDisabled" THEN files
    ELSE [f \in DOMAIN files \cup {filename} |->
             IF f = filename THEN encode(content) ELSE files[f]]

\* _load: FileNotFoundError, NoSuchKey and a missing blob give {}
BackendLoad(self, filename) ==
    IF self.class = "StorageDisabled" \/ filename \notin DOMAIN files
    THEN EmptyTable
    ELSE decode(files[filename])

\* variant: save leaves a key that is cached as it is
SaveCache_keeps_first(self, content, filename) ==
    IF self.cache /\ filename \notin CacheKeys(cache)
    THEN Cache_set(cache, filename, content)
    ELSE cache

\* variant: save leaves the cache alone
SaveCache_backend_only(self, content, filename) == cache

\* the cache after Storage.save
SaveCache(self, content, filename) ==
    IF self.cache THEN Cache_set(cache, filename, content) ELSE cache

\* Storage.load finds a value that is true in the cache
CacheHit(self, filename) ==
    /\ self.cache
    /\ ~Cache_get(cache, filename).none
    /\ Cache_get(cache, filename).val # EmptyTable

\* what Storage.load returns
LoadReturn(self, filename) ==
    IF CacheHit(self, filename) THEN Cache_get(cache, filename).val
    ELSE BackendLoad(self, filename)

\* variant: whatever the backend returns is put into the cache
LoadCache_caches_miss(self, filename) ==
    IF ~CacheHit(self, filename) /\ self.cache
    THEN Cache_set(cache, filename, BackendLoad(self, filename))
    ELSE cache

\* the cache after Storage.load
LoadCache(self, filename) ==
    IF ~CacheHit(self, filename) /\ BackendLoad(self, filename) # EmptyTable /\ self.cache
    THEN Cache_set(cache, filename, BackendLoad(self, filename))
    ELSE cache

(***************************************************************************)
(* storage.get_storage.  An argument is None, a member of the enumeration  *)
(* StorageType, or another object, here a plain string.                    *)
(***************************************************************************)
StorageTypes == {"disabled", "aws", "gcp", "local"}
None == [kind |-> "None", value |-> ""]
Member(value) == [kind |-> "StorageType", value |-> value]
Str(value) == [kind |-> "str", value |-> value]

\* StorageType(value): the member of that value, ValueError if there is none
StorageType(value) ==
    IF value \in StorageTypes THEN Ok(Member(value)) ELSE Raise("InvalidStorageType")

\* storage_type is StorageType.<name>
Is(storage_type, value) == storage_type = Member(value)

\* variant: a bucket identifier is of no consequence
get_cloud_storage_any_bucket(storage_type) ==
    IF Is(storage_type, "aws") THEN Ok("AmazonS3")
    ELSE IF Is(storage_type, "gcp") THEN Ok("GoogleCloudStorage")
    ELSE Ok("None")

get_cloud_storage(storage_type) ==
    IF Is(storage_type, "aws") THEN Ok("AmazonS3")
    ELSE IF Is(storage_type, "gcp") THEN Ok("GoogleCloudStorage")
    ELSE IF config.BUCKET_ID # "" THEN Raise("BucketWithoutCloudStorage")
    ELSE Ok("None")

\* what get_storage does with the storage type once it has one
SelectBackend(storage_type, cloud_storage) ==
    IF ~cloud_storage.ok THEN cloud_storage
    ELSE IF cloud_storage.val # "None" THEN cloud_storage
    ELSE IF Is(storage_type, "local") THEN Ok("LocalStorage")
    ELSE IF Is(storage_type, "disabled") THEN Ok("StorageDisabled")
    ELSE Raise("NotImplementedError")

\* the storage type get_storage goes by
EffectiveType(storage_type) ==
    IF storage_type = None THEN StorageType(config.STORAGE_TYPE) ELSE Ok(storage_type)

get_storage(storage_type) ==
    IF ~EffectiveType(storage_type).ok THEN EffectiveType(storage_type)
    ELSE SelectBackend(EffectiveType(storage_type).val,
                       get_cloud_storage(EffectiveType(storage_type).val))

(***************************************************************************)
(* definitions.py: the two header rows, the column indices (0-based, as in *)
(* the source) and the literal cell values.                                *)
(***************************************************************************)
SINGLE_ACCOUNT ==
    <<"Trades", "Header", "DataDiscriminator", "Asset Category", "Currency", "Symbol",
      "Date/Time", "Exchange", "Quantity", "T. Price", "Proceeds", "Comm/Fee", "Basis",
      "Realized P/L", "Code">>
MULTI_ACCOUNT ==
    <<"Trades", "Header", "DataDiscriminator", "Asset Category", "Currency", "Account",
      "Symbol", "Date/Time", "Exchange", "Quantity", "T. Price", "Proceeds", "Comm/Fee",
      "Basis", "Realized P/L", "Code">>

OFFSET_DICT(items) ==
    IF items = MULTI_ACCOUNT THEN Len(MULTI_ACCOUNT) - Len(SINGLE_ACCOUNT) ELSE 0

Field ==
    [TRADES |-> 0, HEADER |-> 1, DATA_DISCRIMINATOR |-> 2, ASSET_CATEGORY |-> 3,
     CURRENCY |-> 4, SYMBOL |-> 5, DATE_TIME |-> 6, EXCHANGE |-> 7, QUANTITY |-> 8,
     TRANSACTION_PRICE |-> 9, PROCEEDS |-> 10, COMMISSION_AND_FEES |-> 11, BASIS |-> 12,
     REALIZED_PL |-> 13, CODE |-> 14]

\* the column names that `all(item in items for item in Field)` looks for
FieldNames == {SINGLE_ACCOUNT[i] : i \in 1..Len(SINGLE_ACCOUNT)}

DataDiscriminator == [TRADE |-> "Trade", CLOSED_LOT |-> "ClosedLot"]
AssetCategory == [STOCKS |-> "Stocks", OPTIONS |-> "Equity and Index Options"]
FieldValue == [TRADES |-> "Trades", HEADER |-> "Data"]

\* items[i] with Python's 0-based index
Item(items, i) == items[i + 1]

NoFields == [c \in {} |-> 0]

(***************************************************************************)
(* trade.py: class Trade.  A Trade is a record                             *)
(*   [data, fee, closed_quantity, total_selling_price]                     *)
(* and RowData is [symbol, date_str, rate, price_per_share, quantity].     *)
(***************************************************************************)
RowData(symbol, date_str, rate, price, quantity) ==
    IF ~rate.ok THEN rate
    ELSE IF ~price.ok THEN price
    ELSE IF ~quantity.ok THEN quantity
    ELSE Ok([symbol |-> symbol, date_str |-> date_str, rate |-> rate.val,
             price_per_share |-> DDiv(price.val, rate.val), quantity |-> quantity.val])

\* a _row_data that reads the Quantity cell without the offset
row_data_fixed_quantity(items, options) ==
    RowData(Item(items, Field.SYMBOL + options.offset),
            Item(items, Field.DATE_TIME + options.offset),
            get_rate(options.report_currency, Item(items, Field.CURRENCY),
                     Item(items, Field.DATE_TIME + options.offset)),
            decimal_cleanup(Item(items, Field.TRANSACTION_PRICE + options.offset)),
            decimal_cleanup(Item(items, Field.QUANTITY)))

\* Trade._row_data
row_data(items, options) ==
    RowData(Item(items, Field.SYMBOL + options.offset),
            Item(items, Field.DATE_TIME + options.offset),
            get_rate(options.report_currency, Item(items, Field.CURRENCY),
                     Item(items, Field.DATE_TIME + options.offset)),
            decimal_cleanup(Item(items, Field.TRANSACTION_PRICE + options.offset)),
            decimal_cleanup(Item(items, Field.QUANTITY + options.offset)))

\* Trade.__init__, given the row's data and its Comm/Fee and Proceeds cells
TradeOf(data, fee, proceeds) ==
    IF ~data.ok THEN data
    ELSE IF ~fee.ok THEN fee
    ELSE IF DLt(data.val.quantity, Dec(0)) /\ ~proceeds.ok THEN proceeds
    ELSE Ok([data |-> data.val,
             fee |-> DDiv(fee.val, data.val.rate),
             closed_quantity |-> Dec(0),
             total_selling_price |->
                 IF DLt(data.val.quantity, Dec(0))
                 THEN DDiv(proceeds.val, data.val.rate)
                 ELSE Dec(0)])

\* a Trade.__init__ that takes the proceeds of a purchase for a selling price too
NewTrade_any_side(items, options) ==
    LET data == row_data(items, options)
        fee == decimal_cleanup(Item(items, Field.COMMISSION_AND_FEES + options.offset))
        proceeds == decimal_cleanup(Item(items, Field.PROCEEDS + options.offset))
    IN  IF ~data.ok THEN data
        ELSE IF ~fee.ok THEN fee
        ELSE IF ~proceeds.ok THEN proceeds
        ELSE Ok([data |-> data.val,
                 fee |-> DDiv(fee.val, data.val.rate),
                 closed_quantity |-> Dec(0),
                 total_selling_price |-> DDiv(proceeds.val, data.val.rate)])

\* Trade.__init__
NewTrade(items, options) ==
    TradeOf(row_data(items, options),
            decimal_cleanup(Item(items, Field.COMMISSION_AND_FEES + options.offset)),
            decimal_cleanup(Item(items, Field.PROCEEDS + options.offset)))

NoError == [err |-> "", msg |-> <<>>]

\* a _validate_lot that compares the quantities before the symbols
validate_lot_quantity_first(trade, lot_data) ==
    IF DLt(DAbs(trade.data.quantity), DAbs(DAdd(trade.data.quantity, lot_data.quantity)))
    THEN [err |-> "QuantityMismatch", msg |-> <<lot_data.date_str, lot_data.symbol>>]
    ELSE IF trade.data.symbol # lot_data.symbol
    THEN [err |-> "SymbolMismatch",
          msg |-> <<lot_data.date_str, trade.data.symbol, lot_data.symbol>>]
    ELSE NoError

\* Trade._validate_lot: the error raised and the values its message names,
\* NoError if none
validate_lot(trade, lot_data) ==
    IF trade.data.symbol # lot_data.symbol
    THEN [err |-> "SymbolMismatch",
          msg |-> <<lot_data.date_str, trade.data.symbol, lot_data.symbol>>]
    ELSE IF DLt(DAbs(trade.data.quantity), DAbs(DAdd(trade.data.quantity, lot_data.quantity)))
    THEN [err |-> "QuantityMismatch", msg |-> <<lot_data.date_str, lot_data.symbol>>]
    ELSE NoError

\* Decimal(0.8) and Decimal(0.6): see the note on Decimal values above
Decimal08 == <<4, 2, 5>>
Decimal06 == <<3, -1, 5>>

\* a deemed_profit that compares the dates the wrong way round
deemed_profit_reversed(sell_price, buy_date, sell_date) ==
    LET b == get_date(buy_date)
        s == get_date(sell_date)
    IN  IF ~b.ok THEN b
        ELSE IF ~s.ok THEN s
        ELSE Ok(DMul(IF ToOrdinal(b.val) >= add_years(s.val, -10) THEN Decimal06 ELSE Decimal08,
                     sell_price))

\* Trade.deemed_profit
deemed_profit(sell_price, buy_date, sell_date) ==
    LET b == get_date(buy_date)
        s == get_date(sell_date)
    IN  IF ~b.ok THEN b
        ELSE IF ~s.ok THEN s
        ELSE Ok(DMul(IF ToOrdinal(b.val) <= add_years(s.val, -10) THEN Decimal06 ELSE Decimal08,
                     sell_price))

\* a multiplier that forgets the options
Multiplier_shares(items) == Dec(1)

\* One option represents 100 shares of the underlying stock
Multiplier(items) ==
    IF Item(items, Field.ASSET_CATEGORY) = AssetCategory.OPTIONS THEN Dec(100) ELSE Dec(1)

\* the sides without the swap
LotSides_no_swap(trade, lot_data) ==
    [sell_date |-> date_without_time(trade.data.date_str),
     buy_date |-> date_without_time(lot_data.date_str),
     unit_sell_price |-> trade.data.price_per_share,
     unit_buy_price |-> lot_data.price_per_share]

\* (sell_date, buy_date, unit_sell_price, unit_buy_price) after the swap
LotSides(trade, lot_data) ==
    IF DLt(lot_data.quantity, Dec(0))
    THEN [sell_date |-> date_without_time(lot_data.date_str),
          buy_date |-> date_without_time(trade.data.date_str),
          unit_sell_price |-> lot_data.price_per_share,
          unit_buy_price |-> trade.data.price_per_share]
    ELSE [sell_date |-> date_without_time(trade.data.date_str),
          buy_date |-> date_without_time(lot_data.date_str),
          unit_sell_price |-> trade.data.price_per_share,
          unit_buy_price |-> lot_data.price_per_share]

\* lot_fee = lot_data.quantity * self.fee / self.data.quantity
LotFee(trade, lot_data) ==
    IF DIsZero(trade.data.quantity)
    THEN Raise(IF DIsZero(DMul(lot_data.quantity, trade.fee))
               THEN "InvalidOperation" ELSE "DivisionByZero")
    ELSE Ok(DDiv(DMul(lot_data.quantity, trade.fee), trade.data.quantity))

\* a realized value that takes the larger of the two
Realized_max(realized, deemed, options) ==
    IF options.deemed_acquisition_cost
    THEN IF DLt(realized, deemed) THEN deemed ELSE realized
    ELSE realized

\* the realized value before and after the deemed acquisition cost
Realized(realized, deemed, options) ==
    IF options.deemed_acquisition_cost THEN DMin(realized, deemed) ELSE realized

\* the TradeDetails and the updated Trade, or the error of deemed_profit
LotDetails(trade, lot_data, side, lot_sell_price, realized, deemed, options) ==
    IF ~deemed.ok THEN deemed
    ELSE Ok([details |->
                 [symbol |-> lot_data.symbol,
                  quantity |-> DAbs(lot_data.quantity),
                  buy_date |-> side.buy_date,
                  sell_date |-> side.sell_date,
                  price |-> lot_sell_price,
                  realized |-> Realized(realized, deemed.val, options)],
             trade |->
                 [trade EXCEPT !.closed_quantity = DAdd(@, lot_data.quantity)]])

\* lot_sell_price, lot_buy_price, realized and the deemed profit of a valid lot
LotPrices(trade, lot_data, side, lot_sell_price, lot_buy_price, lot_fee, options) ==
    IF ~lot_fee.ok THEN lot_fee
    ELSE LotDetails(trade, lot_data, side, lot_sell_price,
                    DSub(DSub(lot_sell_price, lot_buy_price), lot_fee.val),
                    IF options.deemed_acquisition_cost
                    THEN deemed_profit(lot_sell_price, side.buy_date, side.sell_date)
                    ELSE Ok(Dec(0)),
                    options)

\* the sides of a valid lot
LotOf(trade, lot_data, side, multiplier, options) ==
    LotPrices(trade, lot_data, side,
              DMul(DMul(DAbs(lot_data.quantity), side.unit_sell_price), multiplier),
              DMul(DMul(DAbs(lot_data.quantity), side.unit_buy_price), multiplier),
              LotFee(trade, lot_data), options)

\* the lot's data, validated
ValidLot(trade, lot, invalid, multiplier, options) ==
    IF ~lot.ok THEN lot
    ELSE IF invalid.err # "" THEN RaiseMsg(invalid.err, invalid.msg)
    ELSE LotOf(trade, lot.val, LotSides(trade, lot.val), multiplier, options)

\* the lot's data
WithLot(trade, lot, multiplier, options) ==
    ValidLot(trade, lot, IF lot.ok THEN validate_lot(trade, lot.val) ELSE NoError,
             multiplier, options)

\* Trade.details_from_closed_lot: Ok([details, trade]) with the updated Trade, or the error
details_from_closed_lot(trade, items, options) ==
    WithLot(trade, row_data(items, options), Multiplier(items), options)

(***************************************************************************)
(* report.py: class Report.  A Report is a record                          *)
(*   [prices, gains, losses, details, options, trade]                      *)
(* with options = [report_currency, deemed_acquisition_cost, fields,       *)
(* offset], and trade = <<>> for None or <<t>> for the open Trade t.       *)
(* options.fields is the name -> index map report.py derives from a header *)
(* row; options.offset, which trade.py reads, is OFFSET_DICT of that row.  *)
(***************************************************************************)
NewReport(report_currency, use_deemed_acquisition_cost) ==
    [prices |-> Dec(0), gains |-> Dec(0), losses |-> Dec(0), details |-> <<>>,
     options |-> [report_currency |-> report_currency,
                  deemed_acquisition_cost |-> use_deemed_acquisition_cost,
                  fields |-> NoFields,
                  offset |-> 0],
     trade |-> <<>>]

\* all(item in items for item in Field)
IsHeaderRow(items) == \A f \in FieldNames : \E i \in 1..Len(items) : items[i] = f

\* for index, item in enumerate(items): fields[item] = index
\* (the index kept for a cell value is that of its last occurrence)
FieldsOf(items) ==
    [c \in {items[i] : i \in 1..Len(items)} |->
        (CHOOSE i \in 1..Len(items) :
            items[i] = c /\ \A j \in (i + 1)..Len(items) : items[j] # c) - 1]

\* variant: a row of any asset category is a trade
is_stock_or_options_trade_any_asset(self, items) ==
    LET fields == self.options.fields
    IN  /\ Cardinality(DOMAIN fields) = Len(items)
        /\ Item(items, fields["Trades"]) = FieldValue.TRADES
        /\ Item(items, fields["Header"]) = FieldValue.HEADER
        /\ Item(items, fields["DataDiscriminator"])
               \in {DataDiscriminator.TRADE, DataDiscriminator.CLOSED_LOT}

is_stock_or_options_trade(self, items) ==
    LET fields == self.options.fields
    IN  /\ Cardinality(DOMAIN fields) = Len(items)
        /\ Item(items, fields["Trades"]) = FieldValue.TRADES
        /\ Item(items, fields["Header"]) = FieldValue.HEADER
        /\ Item(items, fields["DataDiscriminator"])
               \in {DataDiscriminator.TRADE, DataDiscriminator.CLOSED_LOT}
        /\ Item(items, fields["Asset Category"])
               \in {AssetCategory.STOCKS, AssetCategory.OPTIONS}

\* a routing that adds the loss with its sign
AddRealized_signed(self, details) ==
    IF DLt(Dec(0), details.realized)
    THEN [self EXCEPT !.gains = DAdd(@, details.realized)]
    ELSE [self EXCEPT !.losses = DAdd(@, details.realized)]

\* the routing of details.realized into gains or losses
AddRealized(self, details) ==
    IF DLt(Dec(0), details.realized)
    THEN [self EXCEPT !.gains = DAdd(@, details.realized)]
    ELSE [self EXCEPT !.losses = DSub(@, details.realized)]

\* variant: a Trade row is refused while the open Trade is not closed in full
OpenTrade_requires_closed(self, t) ==
    IF ~t.ok THEN t
    ELSE IF self.trade # <<>>
            /\ ~DIsZero(DAdd(self.trade[1].closed_quantity, self.trade[1].data.quantity))
    THEN Raise("QuantityMismatch")
    ELSE Ok([self EXCEPT !.trade = <<t.val>>,
                         !.prices = DAdd(@, t.val.total_selling_price)])

\* Report._handle_trade on a Trade row
OpenTrade(self, t) ==
    IF ~t.ok THEN t
    ELSE Ok([self EXCEPT !.trade = <<t.val>>,
                         !.prices = DAdd(@, t.val.total_selling_price)])

HandleTradeRow(self, items) == OpenTrade(self, NewTrade(items, self.options))

\* Report._handle_trade on a ClosedLot row
CloseLot(self, r) ==
    IF ~r.ok THEN r
    ELSE Ok([AddRealized(self, r.val.details) EXCEPT
                 !.trade = <<r.val.trade>>,
                 !.details = Append(@, r.val.details)])

HandleClosedLotRow(self, items) ==
    IF self.trade = <<>>
    THEN Raise("ClosedLotWithoutTrade")
    ELSE CloseLot(self, details_from_closed_lot(self.trade[1], items, self.options))

handle_trade(self, items) ==
    IF Item(items, self.options.fields["DataDiscriminator"]) = DataDiscriminator.TRADE
    THEN HandleTradeRow(self, items)
    ELSE HandleClosedLotRow(self, items)

\* variant: without a layout the rows are read in the single-account layout
handle_one_line_assumes_layout(self, items) ==
    IF IsHeaderRow(items)
    THEN [kind |-> "header",
          res |-> Ok([self EXCEPT !.options.fields = FieldsOf(items),
                                  !.options.offset = OFFSET_DICT(items),
                                  !.trade = <<>>])]
    ELSE IF DOMAIN self.options.fields = {}
    THEN IF is_stock_or_options_trade(
                [self EXCEPT !.options.fields = FieldsOf(SINGLE_ACCOUNT)], items)
         THEN [kind |-> "trade",
               res |-> handle_trade(
                           [self EXCEPT !.options.fields = FieldsOf(SINGLE_ACCOUNT)], items)]
         ELSE [kind |-> "skip", res |-> Ok(self)]
    ELSE IF is_stock_or_options_trade(self, items)
    THEN [kind |-> IF Item(items, self.options.fields["DataDiscriminator"])
                          = DataDiscriminator.TRADE
                   THEN "trade" ELSE "lot",
          res |-> handle_trade(self, items)]
    ELSE [kind |-> "skip", res |-> Ok(self)]

\* variant: a header row starts the sums of the selling prices afresh
handle_one_line_header_resets(self, items) ==
    IF IsHeaderRow(items)
    THEN [kind |-> "header",
          res |-> Ok([self EXCEPT !.options.fields = FieldsOf(items),
                                  !.options.offset = OFFSET_DICT(items),
                                  !.trade = <<>>,
                                  !.prices = Dec(0)])]
    ELSE IF DOMAIN self.options.fields # {} /\ is_stock_or_options_trade(self, items)
    THEN [kind |-> IF Item(items, self.options.fields["DataDiscriminator"])
                          = DataDiscriminator.TRADE
                   THEN "trade" ELSE "lot",
          res |-> handle_trade(self, items)]
    ELSE [kind |-> "skip", res |-> Ok(self)]

\* a _handle_one_line whose header branch forgets `self._trade = None`
handle_one_line_keeps_trade(self, items) ==
    IF IsHeaderRow(items)
    THEN [kind |-> "header",
          res |-> Ok([self EXCEPT !.options.fields = FieldsOf(items),
                                  !.options.offset = OFFSET_DICT(items)])]
    ELSE IF DOMAIN self.options.fields # {} /\ is_stock_or_options_trade(self, items)
    THEN [kind |-> IF Item(items, self.options.fields["DataDiscriminator"])
                          = DataDiscriminator.TRADE
                   THEN "trade" ELSE "lot",
          res |-> handle_trade(self, items)]
    ELSE [kind |-> "skip", res |-> Ok(self)]

\* Report._handle_one_line: [kind, res], where kind says what the row was taken for
\* ("header", "trade", "lot" or "skip") and res is the Report after it, or the error
handle_one_line(self, items) ==
    IF IsHeaderRow(items)
    THEN [kind |-> "header",
          res |-> Ok([self EXCEPT !.options.fields = FieldsOf(items),
                                  !.options.offset = OFFSET_DICT(items),
                                  !.trade = <<>>])]
    ELSE IF DOMAIN self.options.fields # {} /\ is_stock_or_options_trade(self, items)
    THEN [kind |-> IF Item(items, self.options.fields["DataDiscriminator"])
                          = DataDiscriminator.TRADE
                   THEN "trade" ELSE "lot",
          res |-> handle_trade(self, items)]
    ELSE [kind |-> "skip", res |-> Ok(self)]

(***************************************************************************)
(* The rows of the input files.                                            *)
(***************************************************************************)
D2010 == "2010-03-02"
D2010b == "2010-03-03"
D2020 == "2020-03-02, 10:00:00"
D2020b == "2020-03-04 09:00:00"
DFar == "2020-03-20"
DBad == "20xx-08-23, 09:33:11"
DLeap == "2020-02-29"
D2010c == "2010-02-28"
D2010d == "2010-03-01"

MkRow(disc, asset, currency, symbol, date, quantity, price, proceeds) ==
    <<"Trades", "Data", disc, asset, currency, symbol, date, "", quantity, price,
      proceeds, "-2", "", "", "">>

\* the same row in a multi-account export: an Account cell after Currency
WithAccount(row) == SubSeq(row, 1, 5) \o <<"U1">> \o SubSeq(row, 6, Len(row))

TradeRow(currency, date, quantity) ==
    MkRow("Trade", "Stocks", currency, "UPST", date, quantity, "30", "1,000")

LotRow(asset, currency, symbol, date, quantity, price) ==
    MkRow("ClosedLot", asset, currency, symbol, date, quantity, price, "")

TradeRows ==
    {TradeRow("USD", D2020, "-10"), TradeRow("USD", D2020b, "10"),
     TradeRow("EUR", DBad, "-10"), TradeRow("USD", D2020, "0"),
     TradeRow("USD", DFar, "-10"), TradeRow("USD", D2020, "x"),
     TradeRow("USD", D2020, "-5"), TradeRow("USD", DLeap, "-10")}

LotRows ==
    {LotRow("Stocks", "USD", "UPST", D2010, "5", "5"),
     LotRow("Equity and Index Options", "USD", "UPST", D2010b, "5", "2"),
     LotRow("Stocks", "USD", "UPST", D2010, "10", " 30"),
     LotRow("Stocks", "USD", "UPST", D2010, "-5", " 30"),
     LotRow("Stocks", "USD", "UPST", D2010, "-10", "10"),
     LotRow("Stocks", "USD", "UPST", D2010, "0", "10"),
     LotRow("Stocks", "USD", "XXXX", D2010, "5", "10"),
     LotRow("Stocks", "USD", "XXXX", D2010, "-5", "10"),
     LotRow("Stocks", "USD", "UPST", DBad, "5", "10"),
     LotRow("Stocks", "USD", "UPST", D2010, "x", "10"),
     LotRow("Stocks", "USD", "UPST", D2010c, "5", "5"),
     LotRow("Stocks", "USD", "UPST", D2010d, "5", "5")}

MultiAccountRows ==
    {WithAccount(TradeRow("USD", D2020, "-10")),
     WithAccount(LotRow("Stocks", "USD", "UPST", D2010, "5", "5")),
     WithAccount(LotRow("Equity and Index Options", "USD", "UPST", D2010b, "5", "2"))}

OtherRows ==
    {<<"Dividends", "Data", "USD", "2020-03-02", "UPST", "5">>,
     MkRow("Trade", "Forex", "USD", "EUR.USD", D2020, "-10", "30", "1,000"),
     MkRow("Order", "Stocks", "USD", "UPST", D2020, "-10", "30", "1,000"),
     <<"Trades", "SubTotal", "", "Stocks", "USD", "UPST", "", "", "-10", "", "1,000", "-2",
       "", "", "">>}

Rows == {SINGLE_ACCOUNT, MULTI_ACCOUNT} \cup TradeRows \cup LotRows \cup MultiAccountRows
        \cup OtherRows

ReportCurrencies == {"EUR", "USD"}

MaxSteps == 4

(***************************************************************************)
(* The two Reports, and the calls of Report.add_trades on them.            *)
(***************************************************************************)
Runs == BOOLEAN

\* the attributes a caller reads from a Report
Totals(self) ==
    [prices |-> self.prices, gains |-> self.gains, losses |-> self.losses,
     details |-> self.details]

\* what `last` records of an event that reads no Trade or ClosedLot row
Event(name, reading) ==
    [row |-> <<>>,
     kind |-> [dc \in Runs |-> "none"],
     ev |-> [dc \in Runs |-> IF reading[dc] THEN name ELSE "none"],
     msg |-> [dc \in Runs |-> <<>>],
     before |-> rep]

Init ==
    /\ rates = EcbRates
    /\ \E c \in ReportCurrencies : rep = [dc \in Runs |-> NewReport(c, dc)]
    /\ pc = [dc \in Runs |-> "idle"]
    /\ err = [dc \in Runs |-> ""]
    /\ pre = [dc \in Runs |-> Totals(rep[dc])]
    /\ last = Event("none", [dc \in Runs |-> FALSE])
    /\ opened = [dc \in Runs |-> <<>>]
    /\ clean = TRUE
    /\ steps = 0
    /\ backtrack = MAX_BACKTRACK_DAYS
    /\ dl = NoDownload
    /\ lookup = <<>>
    /\ made = NoneMade
    /\ StoreAtRest

\* add_trades is called with the same file on both Reports
BeginAddTrades ==
    /\ \A dc \in Runs : pc[dc] # "reading"
    /\ steps < MaxSteps
    /\ pc' = [dc \in Runs |-> "reading"]
    /\ err' = [dc \in Runs |-> ""]
    /\ pre' = [dc \in Runs |-> Totals(rep[dc])]
    /\ last' = Event("begin", [dc \in Runs |-> TRUE])
    /\ steps' = steps + 1
    /\ UNCHANGED <<rates, rep, opened, clean, rateVars, storeVars>>

\* One Report reading the row `items`: its attributes, position and error afterwards,
\* what the row was taken for (kind) and what came of it (ev).  A Report whose call
\* has raised reads no more.
Outcome(dc, out) ==
    IF out.res.ok
    THEN [rep |-> out.res.val, pc |-> "reading", err |-> err[dc],
          kind |-> out.kind, ev |-> out.kind, msg |-> <<>>]
    ELSE [rep |-> rep[dc], pc |-> "raised", err |-> out.res.err,
          kind |-> out.kind, ev |-> "raise", msg |-> out.res.msg]

RunStep(dc, items) ==
    IF pc[dc] # "reading"
    THEN [rep |-> rep[dc], pc |-> pc[dc], err |-> err[dc], kind |-> "none", ev |-> "none",
          msg |-> <<>>]
    ELSE Outcome(dc, handle_one_line(rep[dc], items))

\* the Trade row a Report has open after an event
Opened(dc, ev, items) ==
    CASE ev = "header" -> <<>>
      [] ev = "trade" -> <<[row |-> items, at |-> Len(rep[dc].details)]>>
      [] OTHER -> opened[dc]

\* csv.reader yields the row `items` to both Reports.
\* last.row keeps the row when a Report took it for a Trade or ClosedLot row.
ReadBoth(items, with, without) ==
    /\ rep' = [dc \in Runs |-> IF dc THEN with.rep ELSE without.rep]
    /\ pc' = [dc \in Runs |-> IF dc THEN with.pc ELSE without.pc]
    /\ err' = [dc \in Runs |-> IF dc THEN with.err ELSE without.err]
    /\ last' = [row |-> IF with.kind \in {"trade", "lot"} \/ without.kind \in {"trade", "lot"}
                        THEN items ELSE <<>>,
                kind |-> [dc \in Runs |-> IF dc THEN with.kind ELSE without.kind],
                ev |-> [dc \in Runs |-> IF dc THEN with.ev ELSE without.ev],
                msg |-> [dc \in Runs |-> IF dc THEN with.msg ELSE without.msg],
                before |-> rep]
    /\ opened' = [dc \in Runs |-> Opened(dc, IF dc THEN with.ev ELSE without.ev, items)]
    /\ clean' = (clean /\ with.ev # "raise" /\ without.ev # "raise")
    /\ steps' = IF with.ev \in {"trade", "lot"} \/ without.ev \in {"trade", "lot"}
                THEN steps + 1 ELSE steps

ReadRow(items) ==
    /\ \E dc \in Runs : pc[dc] = "reading"
    /\ steps < MaxSteps
    /\ ReadBoth(items, RunStep(TRUE, items), RunStep(FALSE, items))
    /\ UNCHANGED <<rates, pre, rateVars, storeVars>>

\* variant: the UnicodeDecodeError leaves add_trades as it is
ReadInvalidBytes_unconverted ==
    /\ \E dc \in Runs : pc[dc] = "reading"
    /\ pc' = [dc \in Runs |-> IF pc[dc] = "reading" THEN "raised" ELSE pc[dc]]
    /\ err' = [dc \in Runs |-> IF pc[dc] = "reading" THEN "UnicodeDecodeError" ELSE err[dc]]
    /\ last' = Event("raise", [dc \in Runs |-> pc[dc] = "reading"])
    /\ clean' = FALSE
    /\ UNCHANGED <<rates, rep, pre, opened, steps, rateVars, storeVars>>

\* iterdecode meets bytes that are not UTF-8: UnicodeDecodeError becomes ValueError
ReadInvalidBytes ==
    /\ \E dc \in Runs : pc[dc] = "reading"
    /\ pc' = [dc \in Runs |-> IF pc[dc] = "reading" THEN "raised" ELSE pc[dc]]
    /\ err' = [dc \in Runs |-> IF pc[dc] = "reading" THEN "InvalidEncoding" ELSE err[dc]]
    /\ last' = Event("raise", [dc \in Runs |-> pc[dc] = "reading"])
    /\ clean' = FALSE
    /\ UNCHANGED <<rates, rep, pre, opened, steps, rateVars, storeVars>>

\* the file is exhausted: add_trades returns
EndOfFile ==
    /\ \E dc \in Runs : pc[dc] = "reading"
    /\ pc' = [dc \in Runs |-> IF pc[dc] = "reading" THEN "idle" ELSE pc[dc]]
    /\ last' = Event("eof", [dc \in Runs |-> pc[dc] = "reading"])
    /\ UNCHANGED <<rates, rep, err, pre, opened, clean, steps, rateVars, storeVars>>

Next ==
    \/ BeginAddTrades
    \/ \E items \in Rows : ReadRow(items)
    \/ ReadInvalidBytes
    \/ EndOfFile

Spec == Init /\ [][Next]_vars

(***************************************************************************)
(* The exchange rates on their own: an ExchangeRates object whose table    *)
(* starts empty, calls of download_official_rates against a server that    *)
(* answers each fetch with an archive or an HTTP error, and get_rate calls *)
(* between the downloads.                                                  *)
(***************************************************************************)
RatesHeader == <<"Date", "USD", "SEK", "">>
UsdOnly == <<RatesHeader, <<"2020-03-04", "2", "N/A", "">>>>
SekOnly == <<RatesHeader, <<"2020-03-04", "N/A", "10", "">>>>
BothEarlier == <<RatesHeader, <<"2020-03-03", "1.25", "10", "">>>>
SixDaysBack == <<RatesHeader, <<"2020-02-27", "2", "10", "">>>>
SevenDaysBack == <<RatesHeader, <<"2020-02-26", "2", "10", "">>>>
NoHeader == << <<"2020-03-04", "5", "5", "">>, <<"2020-03-03", "N/A", "N/A", "">> >>
ZeroRate == <<RatesHeader, <<"2020-03-04", "0", "-2", "">>>>
TwoHeaders ==
    << <<"2020-03-04", "5", "5", "">>,
       RatesHeader,
       <<"2020-03-03", "1.25", "10", "">>,
       <<"2020-02-27", "N/A", "", "">>,
       <<"2020-02-26", "2", "N/A", "">>,
       <<"Date", "SEK", "USD", "">>,
       <<"2020-03-04", "10", "2", "">> >>

Archives ==
    {<<UsdOnly>>, <<SekOnly>>, <<BothEarlier>>, <<SixDaysBack>>, <<SevenDaysBack>>,
     <<NoHeader, BothEarlier>>, <<TwoHeaders>>, <<ZeroRate>>}

Currencies == {"EUR", "USD", "SEK", "KEKW"}
LookupDates == {"2020-03-04", "2020-03-03", DFar, DBad}
BacktrackDays == {0, 1, MAX_BACKTRACK_DAYS}

RateInit ==
    /\ rates = <<>>
    /\ rep = [dc \in Runs |-> NewReport("EUR", dc)]
    /\ pc = [dc \in Runs |-> "idle"]
    /\ err = [dc \in Runs |-> ""]
    /\ pre = [dc \in Runs |-> Totals(rep[dc])]
    /\ last = Event("none", [dc \in Runs |-> FALSE])
    /\ opened = [dc \in Runs |-> <<>>]
    /\ clean = TRUE
    /\ steps = 0
    /\ backtrack \in BacktrackDays
    /\ dl = NoDownload
    /\ lookup = <<>>
    /\ made = NoneMade
    /\ StoreAtRest

\* variant: the call gives up one retry earlier
RetriesExhausted_one_early(retries) == retries >= MAX_HTTP_RETRIES

\* if retries > MAX_HTTP_RETRIES
RetriesExhausted(retries) == retries > MAX_HTTP_RETRIES

\* download_official_rates is called: retries = 0
BeginDownload ==
    /\ dl.pc # "fetching"
    /\ dl' = [pc |-> "fetching", retries |-> 0, fetches |-> 0, before |-> rates]
    /\ lookup' = <<>>
    /\ UNCHANGED <<rates, backtrack, made, ledgerVars, storeVars>>

\* urlopen raises HTTPError: retries += 1
FetchFails ==
    /\ dl.pc = "fetching"
    /\ ~RetriesExhausted(dl.retries)
    /\ dl' = [dl EXCEPT !.retries = @ + 1, !.fetches = @ + 1]
    /\ UNCHANGED <<rates, backtrack, lookup, made, ledgerVars, storeVars>>

\* urlopen answers with the archive rates_zip: break, then every file is parsed
FetchSucceeds(rates_zip) ==
    /\ dl.pc = "fetching"
    /\ ~RetriesExhausted(dl.retries)
    /\ rates' = ParseArchive(rates, rates_zip, Len(rates_zip))
    /\ dl' = [dl EXCEPT !.pc = "done", !.fetches = @ + 1]
    /\ UNCHANGED <<backtrack, lookup, made, ledgerVars, storeVars>>

\* raise ValueError("Maximum number of retries exceeded. ...")
RetriesExceeded ==
    /\ dl.pc = "fetching"
    /\ RetriesExhausted(dl.retries)
    /\ dl' = [dl EXCEPT !.pc = "failed"]
    /\ UNCHANGED <<rates, backtrack, lookup, made, ledgerVars, storeVars>>

\* get_rate is called on the object, whose last download call has returned
GetRate(currency_from, currency_to, date_str) ==
    /\ dl.pc # "fetching"
    /\ dl' = NoDownload
    /\ lookup' = [currency_from |-> currency_from, currency_to |-> currency_to,
                  date_str |-> date_str,
                  res |-> get_rate(currency_from, currency_to, date_str)]
    /\ UNCHANGED <<rates, backtrack, made, ledgerVars, storeVars>>

FetchStep ==
    \/ FetchFails
    \/ \E rates_zip \in Archives : FetchSucceeds(rates_zip)
    \/ RetriesExceeded

RateNext ==
    \/ BeginDownload
    \/ FetchFails
    \/ \E rates_zip \in Archives : FetchSucceeds(rates_zip)
    \/ RetriesExceeded
    \/ \E currency_from \in Currencies, currency_to \in Currencies, date_str \in LookupDates :
           GetRate(currency_from, currency_to, date_str)

RateSpec == RateInit /\ [][RateNext]_vars

\* the download loop is not suspended for ever between two of its steps
FairRateSpec == RateSpec /\ WF_vars(FetchStep)

(***************************************************************************)
(* The cache and one Storage object on their own: Cache.set, Cache.get and *)
(* Cache.clear called directly, and save and load called on the object,    *)
(* one call at a time.                                                     *)
(***************************************************************************)
Table1 == [d \in {"2020-03-04"} |-> [cur \in {"USD"} |-> "2"]]
Table2 ==
    [d \in {"2020-03-03", "2020-03-04"} |->
        IF d = "2020-03-03" THEN [cur \in {"USD", "SEK"} |-> IF cur = "USD" THEN "1.25" ELSE "10"]
        ELSE [cur \in {"USD"} |-> "1.25"]]
Tables == {EmptyTable, Table1, Table2}
Keys == {"rates-1", "rates-2", "rates-3"}
CacheSizes == {0, 2}
MaxCalls == 3

StoreInit ==
    /\ rates = <<>>
    /\ rep = [dc \in Runs |-> NewReport("EUR", dc)]
    /\ pc = [dc \in Runs |-> "idle"]
    /\ err = [dc \in Runs |-> ""]
    /\ pre = [dc \in Runs |-> Totals(rep[dc])]
    /\ last = Event("none", [dc \in Runs |-> FALSE])
    /\ opened = [dc \in Runs |-> <<>>]
    /\ clean = TRUE
    /\ steps = 0
    /\ backtrack = MAX_BACKTRACK_DAYS
    /\ dl = NoDownload
    /\ lookup = <<>>
    /\ made = NoneMade
    /\ cache = <<>>
    /\ maxcache \in CacheSizes
    /\ storage \in [class : StorageClasses, cache : BOOLEAN]
    /\ files = EmptyTable
    /\ call = NoCall
    /\ ghost = NoHistory
    /\ thread = NoThreads
    /\ config = DefaultConfig
    /\ selected = NoSelection

\* what `call` and `ghost` record of a call
Recorded(name, key, content, ret, saves) ==
    /\ call' = [name |-> name, key |-> key, content |-> content, ret |-> ret, cache |-> cache]
    /\ ghost' = [saved |-> IF saves
                           THEN [f \in DOMAIN ghost.saved \cup {key} |->
                                    IF f = key THEN content ELSE ghost.saved[f]]
                           ELSE ghost.saved,
                 touched |-> IF name \in {"set", "save"} THEN ghost.touched \cup {key}
                             ELSE ghost.touched,
                 calls |-> ghost.calls + 1,
                 plain |-> ghost.plain /\ name \in {"save", "load"}]

CacheSet(key, value) ==
    /\ ghost.calls < MaxCalls
    /\ cache' = Cache_set(cache, key, value)
    /\ Recorded("set", key, value, EmptyTable, FALSE)
    /\ UNCHANGED <<maxcache, storage, files, rates, ledgerVars, rateVars, config, selected, thread>>

CacheGet(key) ==
    /\ ghost.calls < MaxCalls
    /\ Recorded(IF Cache_get(cache, key).none THEN "get None" ELSE "get", key, EmptyTable,
                Cache_get(cache, key).val, FALSE)
    /\ UNCHANGED <<cache, maxcache, storage, files, rates, ledgerVars, rateVars, config, selected, thread>>

CacheClear ==
    /\ ghost.calls < MaxCalls
    /\ cache' = <<>>
    /\ Recorded("clear", "", EmptyTable, EmptyTable, FALSE)
    /\ UNCHANGED <<maxcache, storage, files, rates, ledgerVars, rateVars, config, selected, thread>>

\* Storage.save(content, filename)
Save(content, filename) ==
    /\ ghost.calls < MaxCalls
    /\ cache' = SaveCache(storage, content, filename)
    /\ files' = BackendSave(storage, content, filename)
    /\ Recorded("save", filename, content, EmptyTable, TRUE)
    /\ UNCHANGED <<maxcache, storage, rates, ledgerVars, rateVars, config, selected, thread>>

\* Storage.load(filename)
Load(filename) ==
    /\ ghost.calls < MaxCalls
    /\ cache' = LoadCache(storage, filename)
    /\ Recorded("load", filename, EmptyTable, LoadReturn(storage, filename), FALSE)
    /\ UNCHANGED <<maxcache, storage, files, rates, ledgerVars, rateVars, config, selected, thread>>

\* storage.cache = flag
SetCaching(flag) ==
    /\ ghost.calls < MaxCalls
    /\ flag # storage.cache
    /\ storage' = [storage EXCEPT !.cache = flag]
    /\ Recorded("caching", "", EmptyTable, EmptyTable, FALSE)
    /\ UNCHANGED <<cache, maxcache, files, rates, ledgerVars, rateVars, config, selected, thread>>

StoreNext ==
    \/ \E key \in Keys, value \in Tables : CacheSet(key, value)
    \/ \E key \in Keys : CacheGet(key)
    \/ CacheClear
    \/ \E content \in Tables, filename \in Keys : Save(content, filename)
    \/ \E filename \in Keys : Load(filename)
    \/ \E flag \in BOOLEAN : SetCaching(flag)

StoreSpec == StoreInit /\ [][StoreNext]_vars

(***************************************************************************)
(* The selection of the backend on its own: the configuration is drawn     *)
(* when the module is imported, get_storage is called with an argument.    *)
(***************************************************************************)
BucketIds == {"", "my-bucket"}
ConfiguredTypes == StorageTypes \cup {"azure", ""}
Arguments ==
    {None} \cup {Member(value) : value \in StorageTypes}
           \cup {Str(value) : value \in {"not-implemented", "local", "aws"}}

SelectInit ==
    /\ rates = <<>>
    /\ rep = [dc \in Runs |-> NewReport("EUR", dc)]
    /\ pc = [dc \in Runs |-> "idle"]
    /\ err = [dc \in Runs |-> ""]
    /\ pre = [dc \in Runs |-> Totals(rep[dc])]
    /\ last = Event("none", [dc \in Runs |-> FALSE])
    /\ opened = [dc \in Runs |-> <<>>]
    /\ clean = TRUE
    /\ steps = 0
    /\ backtrack = MAX_BACKTRACK_DAYS
    /\ dl = NoDownload
    /\ lookup = <<>>
    /\ made = NoneMade
    /\ cache = <<>>
    /\ maxcache = MAXCACHE
    /\ storage = [class |-> "StorageDisabled", cache |-> TRUE]
    /\ files = EmptyTable
    /\ call = NoCall
    /\ ghost = NoHistory
    /\ thread = NoThreads
    /\ config \in [BUCKET_ID : BucketIds, STORAGE_TYPE : ConfiguredTypes]
    /\ selected = NoSelection

GetStorage(storage_type) ==
    /\ selected' = <<[storage_type |-> storage_type, res |-> get_storage(storage_type)]>>
    /\ UNCHANGED <<rates, ledgerVars, rateVars, cache, maxcache, storage, files, call, ghost,
                   config, thread>>

SelectNext == \E storage_type \in Arguments : GetStorage(storage_type)

SelectSpec == SelectInit /\ [][SelectNext]_vars

(***************************************************************************)
(* One process that constructs Reports, and serves the cron request, one   *)
(* after another on one date.  Each constructs an ExchangeRates object;    *)
(* the feed answers a download with an archive, or with HTTP errors until  *)
(* the retries are exceeded.  `files` is the bucket BUCKET_ID names.       *)
(***************************************************************************)
Today == "2020-03-04"
Yesterday == "2020-03-03"
HTTPErrors == <<>>
Answers == Archives \cup {HTTPErrors}
MaxReports == 3

\* SAVED_RATES_FILE.format(identifier)
SAVED_RATES_FILE(identifier) == <<"official_ecb_exchange_rates-", identifier, ".json.xz">>

\* self.rates after _download_rates_from_bucket: the class attribute {} if no blob
\* is found
BucketRates(cron_job) ==
    IF SAVED_RATES_FILE(Today) \in DOMAIN files
    THEN decode(files[SAVED_RATES_FILE(Today)])
    ELSE IF ~cron_job /\ SAVED_RATES_FILE(Yesterday) \in DOMAIN files
    THEN decode(files[SAVED_RATES_FILE(Yesterday)])
    ELSE <<>>

\* self.rates when download_official_rates has returned
Downloaded(found, answer) ==
    IF answer = HTTPErrors THEN found ELSE ParseArchive(found, answer, Len(answer))

\* _upload_rates_to_bucket
Uploaded(table) ==
    [f \in DOMAIN files \cup {SAVED_RATES_FILE(Today)} |->
        IF f = SAVED_RATES_FILE(Today) THEN encode(table) ELSE files[f]]

\* ExchangeRates.__init__, given the rates found in the bucket ({} without a
\* bucket) and the answer of the feed: whether it returned, the rates of the object,
\* the bucket afterwards, whether it downloaded and whether it read the bucket
Constructed(found, answer) ==
    [ok |-> DOMAIN found # {} \/ answer # HTTPErrors,
     rates |-> IF DOMAIN found # {} THEN found ELSE Downloaded(found, answer),
     files |-> IF DOMAIN found = {} /\ answer # HTTPErrors /\ config.BUCKET_ID # ""
               THEN Uploaded(Downloaded(found, answer))
               ELSE files,
     download |-> DOMAIN found = {},
     read |-> config.BUCKET_ID # ""]

ExchangeRates_init(cron_job, answer) ==
    Constructed(IF config.BUCKET_ID # "" THEN BucketRates(cron_job) ELSE <<>>, answer)

ProcessInit ==
    /\ rates = <<>>
    /\ rep = [dc \in Runs |-> NewReport("EUR", dc)]
    /\ pc = [dc \in Runs |-> "idle"]
    /\ err = [dc \in Runs |-> ""]
    /\ pre = [dc \in Runs |-> Totals(rep[dc])]
    /\ last = Event("none", [dc \in Runs |-> FALSE])
    /\ opened = [dc \in Runs |-> <<>>]
    /\ clean = TRUE
    /\ steps = 0
    /\ backtrack = MAX_BACKTRACK_DAYS
    /\ dl = NoDownload
    /\ lookup = <<>>
    /\ made = NoneMade
    /\ cache = <<>>
    /\ maxcache = MAXCACHE
    /\ storage = [class |-> "StorageDisabled", cache |-> TRUE]
    /\ \E bucket \in BucketIds :
          /\ config = [BUCKET_ID |-> bucket, STORAGE_TYPE |-> "disabled"]
          /\ files \in IF bucket = "" THEN {EmptyTable}
                       ELSE {EmptyTable,
                             (SAVED_RATES_FILE(Yesterday) :> encode(FileRates(BothEarlier)))}
    /\ call = NoCall
    /\ ghost = NoHistory
    /\ thread = NoThreads
    /\ selected = NoSelection

\* what `made` records of a call that constructs an ExchangeRates object
Made(by, object) ==
    [calls |-> made.calls + 1,
     built |-> IF object.ok THEN made.built + 1 ELSE made.built,
     earlier |-> made.built,
     by |-> by, ok |-> object.ok, download |-> object.download, read |-> object.read]

\* Report(): self.rates = ExchangeRates()
ReportInit(answer) ==
    /\ made.calls < MaxReports
    /\ rates' = IF ExchangeRates_init(FALSE, answer).ok
                THEN ExchangeRates_init(FALSE, answer).rates ELSE rates
    /\ files' = ExchangeRates_init(FALSE, answer).files
    /\ made' = Made("report", ExchangeRates_init(FALSE, answer))
    /\ UNCHANGED <<backtrack, dl, lookup, ledgerVars, cache, maxcache, storage, call, ghost,
                   config, selected, thread>>

\* GET /cron with the X-Appengine-Cron header: if BUCKET_ID: ExchangeRates()
Cron(answer) ==
    /\ made.calls < MaxReports
    /\ config.BUCKET_ID # ""
    /\ rates' = IF ExchangeRates_init(FALSE, answer).ok
                THEN ExchangeRates_init(FALSE, answer).rates ELSE rates
    /\ files' = ExchangeRates_init(FALSE, answer).files
    /\ made' = Made("cron", ExchangeRates_init(FALSE, answer))
    /\ UNCHANGED <<backtrack, dl, lookup, ledgerVars, cache, maxcache, storage, call, ghost,
                   config, selected, thread>>

ProcessNext ==
    \/ \E answer \in Answers : ReportInit(answer)
    \/ \E answer \in Answers : Cron(answer)

ProcessSpec == ProcessInit /\ [][ProcessNext]_vars

(***************************************************************************)
(* Two threads in Cache.set and Cache.get.  The interpreter runs one       *)
(* operation on the dict at a time; a thread may be suspended between any  *)
(* two of them.                                                            *)
(***************************************************************************)
ThreadCacheSizes == {1, 2}
MaxThreadCalls == 3

ThreadInit ==
    /\ rates = <<>>
    /\ rep = [dc \in Runs |-> NewReport("EUR", dc)]
    /\ pc = [dc \in Runs |-> "idle"]
    /\ err = [dc \in Runs |-> ""]
    /\ pre = [dc \in Runs |-> Totals(rep[dc])]
    /\ last = Event("none", [dc \in Runs |-> FALSE])
    /\ opened = [dc \in Runs |-> <<>>]
    /\ clean = TRUE
    /\ steps = 0
    /\ backtrack = MAX_BACKTRACK_DAYS
    /\ dl = NoDownload
    /\ lookup = <<>>
    /\ made = NoneMade
    /\ cache = <<>>
    /\ maxcache \in ThreadCacheSizes
    /\ storage = [class |-> "StorageDisabled", cache |-> TRUE]
    /\ files = EmptyTable
    /\ call = NoCall
    /\ ghost = NoHistory
    /\ thread = NoThreads
    /\ config = DefaultConfig
    /\ selected = NoSelection

\* the cache without the entry of a key
Deleted(c, key) == SelectSeq(c, LAMBDA entry : entry[1] # key)

\* thread t moves to position p, with the locals key and victim
At(t, p, key, victim) ==
    [thread EXCEPT !.at[t] = [pc |-> p, key |-> key, victim |-> victim]]

\* thread t calls Cache.set(key, value)
BeginSet(t, key) ==
    /\ thread.at[t].pc = "idle"
    /\ thread.calls < MaxThreadCalls
    /\ thread' = [At(t, "check", key, "") EXCEPT !.calls = @ + 1]
    /\ UNCHANGED <<rates, ledgerVars, rateVars, cache, maxcache, storage, files, call, ghost,
                   config, selected>>

\* if key not in _cache and len(_cache) >= _MAXCACHE
CheckFull(t) ==
    /\ thread.at[t].pc = "check"
    /\ thread' = At(t, IF thread.at[t].key \notin CacheKeys(cache) /\ Len(cache) >= maxcache
                       THEN "evict" ELSE "insert",
                    thread.at[t].key, "")
    /\ UNCHANGED <<rates, ledgerVars, rateVars, cache, maxcache, storage, files, call, ghost,
                   config, selected>>

\* next(iter(_cache)): the first key, or StopIteration, which is passed over
FirstKey(t) ==
    /\ thread.at[t].pc = "evict"
    /\ thread' = IF cache = <<>>
                 THEN At(t, "insert", thread.at[t].key, "")
                 ELSE At(t, "delete", thread.at[t].key, cache[1][1])
    /\ UNCHANGED <<rates, ledgerVars, rateVars, cache, maxcache, storage, files, call, ghost,
                   config, selected>>

\* del _cache[...]: KeyError is passed over
DeleteFirst(t) ==
    /\ thread.at[t].pc = "delete"
    /\ cache' = Deleted(cache, thread.at[t].victim)
    /\ thread' = [At(t, "insert", thread.at[t].key, "") EXCEPT
                      !.evicted = IF thread.at[t].victim \in CacheKeys(cache)
                                  THEN @ \cup {thread.at[t].victim} ELSE @]
    /\ UNCHANGED <<rates, ledgerVars, rateVars, maxcache, storage, files, call, ghost,
                   config, selected>>

\* _cache[key] = value, and Cache.set returns
Insert(t) ==
    /\ thread.at[t].pc = "insert"
    /\ cache' = Assign(cache, thread.at[t].key, Table1)
    /\ thread' = [At(t, "idle", "", "") EXCEPT
                      !.set = @ \cup {thread.at[t].key},
                      !.evicted = @ \ {thread.at[t].key}]
    /\ UNCHANGED <<rates, ledgerVars, rateVars, maxcache, storage, files, call, ghost,
                   config, selected>>

\* thread t calls Cache.get(key): if key in _cache
BeginGet(t, key) ==
    /\ thread.at[t].pc = "idle"
    /\ thread.calls < MaxThreadCalls
    /\ thread' = [At(t, IF key \in CacheKeys(cache) THEN "read" ELSE "idle",
                     IF key \in CacheKeys(cache) THEN key ELSE "", "")
                  EXCEPT !.calls = @ + 1]
    /\ UNCHANGED <<rates, ledgerVars, rateVars, cache, maxcache, storage, files, call, ghost,
                   config, selected>>

\* return _cache[key]: KeyError if the key is gone by now
ReadKey(t) ==
    /\ thread.at[t].pc = "read"
    /\ thread' = [At(t, "idle", "", "") EXCEPT
                      !.raised = @ \/ thread.at[t].key \notin CacheKeys(cache)]
    /\ UNCHANGED <<rates, ledgerVars, rateVars, cache, maxcache, storage, files, call, ghost,
                   config, selected>>

ThreadNext ==
    \E t \in Threads :
        \/ \E key \in Keys : BeginSet(t, key)
        \/ CheckFull(t)
        \/ FirstKey(t)
        \/ DeleteFirst(t)
        \/ Insert(t)
        \/ \E key \in Keys : BeginGet(t, key)
        \/ ReadKey(t)

ThreadSpec == ThreadInit /\ [][ThreadNext]_vars

(***************************************************************************)
(* Properties.  `last` holds the latest event: the row read, what each     *)
(* Report took it for (kind), what came of it (ev) and the Reports before  *)
(* it; `opened` holds the Trade row a Report accepted after its last       *)
(* header row.                                                             *)
(***************************************************************************)
LastDetails(dc) == rep[dc].details[Len(rep[dc].details)]

\* the sum of |lot.quantity| over the ClosedLot rows accepted since details[at]
RECURSIVE ClosedSince(_, _)
ClosedSince(details, at) ==
    IF at >= Len(details)
    THEN Dec(0)
    ELSE DAdd(details[at + 1].quantity, ClosedSince(details, at + 1))

\* the Quantity cell of the Trade row a Report has open
OpenQuantity(dc) ==
    decimal_cleanup(Item(opened[dc][1].row, Field.QUANTITY + rep[dc].options.offset)).val

\* C1: an eligible ClosedLot row read when no Trade row was accepted since the
\* last header row (or since the Report was made) raises ClosedLotWithoutTrade,
\* and gains, losses, details and prices stay as they were.
C1_ClosedLotWithoutTrade ==
    \A dc \in Runs :
        (last.kind[dc] = "lot" /\ opened[dc] = <<>>) =>
            /\ last.ev[dc] = "raise"
            /\ pc[dc] = "raised"
            /\ err[dc] = "ClosedLotWithoutTrade"
            /\ Totals(rep[dc]) = Totals(last.before[dc])

\* a ClosedLot row met right after a header row that followed an accepted Trade row
C1_Witness ==
    \E dc \in Runs :
        /\ last.kind[dc] = "lot"
        /\ opened[dc] = <<>>
        /\ err[dc] = "ClosedLotWithoutTrade"
        /\ last.before[dc].prices # Dec(0)
        /\ DOMAIN rep[dc].options.fields # {}

\* C2: for the Trade row a Report has open, the sum of |lot.quantity| over the
\* ClosedLot rows accepted for it never exceeds |open.quantity|.
C2_LedgerConservation ==
    \A dc \in Runs :
        opened[dc] # <<>> =>
            DLe(ClosedSince(rep[dc].details, opened[dc][1].at), DAbs(OpenQuantity(dc)))

\* C3: when a call of add_trades has ended with a ValueError, prices, gains, losses
\* and details equal their values before that call.
C3_NoPartialTotals ==
    \A dc \in Runs :
        (pc[dc] = "raised" /\ err[dc] \in ValueErrors) => Totals(rep[dc]) = pre[dc]

\* C4: when a call of add_trades begins, the field layout and the open Trade are
\* reset, so that its first rows are read as on a fresh Report.
C4_CallResetsRowMatching ==
    \A dc \in Runs :
        last.ev[dc] = "begin" =>
            /\ rep[dc].options.fields = NoFields
            /\ rep[dc].trade = <<>>

\* the cell of column f in a Trade or ClosedLot row, and its number
Cell(dc, row, f) == Item(row, f + rep[dc].options.offset)
Number(dc, row, f) == decimal_cleanup(Cell(dc, row, f)).val

\* the resolved rate of a row, and its price per share in the report currency
RowRate(dc, row) ==
    get_rate(rep[dc].options.report_currency, Item(row, Field.CURRENCY),
             Cell(dc, row, Field.DATE_TIME)).val
UnitPrice(dc, row) == DDiv(Number(dc, row, Field.TRANSACTION_PRICE), RowRate(dc, row))

\* The ClosedLot row just accepted and the Trade row it closes, from their cells:
\* the lot's quantity q, the options multiplier m, the sell and the buy side.
Pair(dc) ==
    LET open == opened[dc][1].row
        lot == last.row
        q == Number(dc, lot, Field.QUANTITY)
        m == IF Item(lot, Field.ASSET_CATEGORY) = "Equity and Index Options"
             THEN Dec(100) ELSE Dec(1)
        lot_sells == DLt(q, Dec(0))
        sell == IF lot_sells THEN lot ELSE open
        buy == IF lot_sells THEN open ELSE lot
    IN  [q |-> q,
         sell_date |-> date_without_time(Cell(dc, sell, Field.DATE_TIME)),
         buy_date |-> date_without_time(Cell(dc, buy, Field.DATE_TIME)),
         sell_price |-> DMul(DMul(DAbs(q), UnitPrice(dc, sell)), m),
         buy_price |-> DMul(DMul(DAbs(q), UnitPrice(dc, buy)), m),
         fee |-> DDiv(DMul(q, DDiv(Number(dc, open, Field.COMMISSION_AND_FEES),
                                   RowRate(dc, open))),
                      Number(dc, open, Field.QUANTITY))]

\* |q| * sell * m - |q| * buy * m - q * open.fee / open.quantity
ActualRealized(dc) ==
    LET p == Pair(dc) IN DSub(DSub(p.sell_price, p.buy_price), p.fee)

\* the buy date is at least ten years before the sell date
HeldTenYears(buy_date, sell_date) ==
    LET b == DateTable[buy_date]
        s == DateTable[sell_date]
    IN  \/ b[1] + 10 < s[1]
        \/ b[1] + 10 = s[1] /\ (b[2] < s[2] \/ (b[2] = s[2] /\ b[3] <= s[3]))

\* C5: with deemed cost disabled, an accepted ClosedLot row emits
\* realized = |q| * sell * m - |q| * buy * m - q * open.fee / open.quantity and
\* price = |q| * sell * m, with m = 100 for an options row and 1 otherwise and
\* each price per share the row's price over the row's own rate.
C5_RealizedWithoutDeemedCost ==
    last.ev[FALSE] = "lot" =>
        /\ opened[FALSE] # <<>>
        /\ LastDetails(FALSE).realized = ActualRealized(FALSE)
        /\ LastDetails(FALSE).price = Pair(FALSE).sell_price

\* an options lot converted from USD to EUR
C5_Witness ==
    /\ last.ev[FALSE] = "lot"
    /\ Item(last.row, Field.ASSET_CATEGORY) = "Equity and Index Options"
    /\ RowRate(FALSE, last.row) # Dec(1)
    /\ ~DIsZero(LastDetails(FALSE).realized)

\* C6: a ClosedLot with negative quantity supplies the sell date and sell price and
\* its Trade the buy date and buy price; otherwise the Trade supplies the sell side
\* and the lot the buy side.
C6_BuySellRoles ==
    \A dc \in Runs :
        last.ev[dc] = "lot" =>
            /\ opened[dc] # <<>>
            /\ LET lot_sells == DLt(Number(dc, last.row, Field.QUANTITY), Dec(0))
                   open == opened[dc][1].row
                   d == LastDetails(dc)
                   abs_q == DAbs(Number(dc, last.row, Field.QUANTITY))
                   m == IF Item(last.row, Field.ASSET_CATEGORY) = "Equity and Index Options"
                        THEN Dec(100) ELSE Dec(1)
                   spent == DSub(DSub(d.price, d.realized), Pair(dc).fee)
               IN  IF lot_sells
                   THEN /\ d.sell_date = date_without_time(Cell(dc, last.row, Field.DATE_TIME))
                        /\ d.buy_date = date_without_time(Cell(dc, open, Field.DATE_TIME))
                        /\ d.price = DMul(DMul(abs_q, UnitPrice(dc, last.row)), m)
                        /\ ~dc => spent = DMul(DMul(abs_q, UnitPrice(dc, open)), m)
                   ELSE /\ d.sell_date = date_without_time(Cell(dc, open, Field.DATE_TIME))
                        /\ d.buy_date = date_without_time(Cell(dc, last.row, Field.DATE_TIME))
                        /\ d.price = DMul(DMul(abs_q, UnitPrice(dc, open)), m)
                        /\ ~dc => spent = DMul(DMul(abs_q, UnitPrice(dc, last.row)), m)

\* a lot of negative quantity closing a short position
C6_Witness ==
    \E dc \in Runs :
        /\ last.ev[dc] = "lot"
        /\ DLt(Number(dc, last.row, Field.QUANTITY), Dec(0))
        /\ LastDetails(dc).sell_date = D2010
        /\ LastDetails(dc).buy_date = "2020-03-04"

\* C7 as stated: with deemed cost enabled realized = min(actual_realized,
\* lot_sell_price - deemed), deemed = factor * lot_sell_price, factor 0.6 or 0.8 by
\* holding period; with deemed cost disabled realized = actual_realized.
C7_DeemedCostSubtracted ==
    \A dc \in Runs :
        last.ev[dc] = "lot" =>
            LET d == LastDetails(dc)
                factor == IF HeldTenYears(d.buy_date, d.sell_date)
                          THEN Decimal06 ELSE Decimal08
                deemed == DMul(factor, d.price)
            IN  d.realized = IF dc THEN DMin(ActualRealized(dc), DSub(d.price, deemed))
                             ELSE ActualRealized(dc)

\* C7: with deemed cost enabled realized = min(actual_realized, factor *
\* lot_sell_price), factor Decimal(0.6) when the buy date is at least ten years
\* before the sell date and Decimal(0.8) otherwise; with deemed cost disabled
\* realized = actual_realized.
C7_DeemedProfit ==
    \A dc \in Runs :
        last.ev[dc] = "lot" =>
            LET d == LastDetails(dc)
                factor == IF HeldTenYears(d.buy_date, d.sell_date)
                          THEN Decimal06 ELSE Decimal08
            IN  d.realized = IF dc THEN DMin(ActualRealized(dc), DMul(factor, d.price))
                             ELSE ActualRealized(dc)

\* a lot held less than ten years whose deemed profit is below the actual one
C7_Witness ==
    /\ last.ev[TRUE] = "lot"
    /\ ~HeldTenYears(LastDetails(TRUE).buy_date, LastDetails(TRUE).sell_date)
    /\ DLt(LastDetails(TRUE).realized, ActualRealized(TRUE))
    /\ LastDetails(TRUE).realized = DMul(Decimal08, LastDetails(TRUE).price)

\* C8: as long as both Reports have accepted every row, the gains with deemed cost
\* enabled are at most the gains with it disabled, and the proceeds are the same.
C8_DeemedCostMonotone ==
    clean => /\ DLe(rep[TRUE].gains, rep[FALSE].gains)
             /\ rep[TRUE].prices = rep[FALSE].prices

\* both Reports accepted two lots and the deemed cost lowered the gains
C8_Witness ==
    /\ clean
    /\ Len(rep[TRUE].details) = 2
    /\ Len(rep[FALSE].details) = 2
    /\ DLt(rep[TRUE].gains, rep[FALSE].gains)
    /\ DLt(Dec(0), rep[TRUE].prices)

RECURSIVE SumRealized(_, _)
SumRealized(details, n) ==
    IF n = 0 THEN Dec(0) ELSE DAdd(SumRealized(details, n - 1), details[n].realized)

\* C9: an accepted ClosedLot with realized r > 0 adds r to gains and leaves losses,
\* one with r <= 0 adds -r to losses and leaves gains; gains >= 0 and losses >= 0,
\* neither decreases, and gains - losses is the sum of realized over details.
C9_RealizedRouting ==
    \A dc \in Runs :
        LET before == last.before[dc]
            self == rep[dc]
        IN  /\ DLe(Dec(0), self.gains)
            /\ DLe(Dec(0), self.losses)
            /\ DLe(before.gains, self.gains)
            /\ DLe(before.losses, self.losses)
            /\ DSub(self.gains, self.losses) = SumRealized(self.details, Len(self.details))
            /\ last.ev[dc] = "lot" =>
                   LET r == LastDetails(dc).realized
                   IN  IF DLt(Dec(0), r)
                       THEN self.gains = DAdd(before.gains, r) /\ self.losses = before.losses
                       ELSE self.losses = DSub(before.losses, r) /\ self.gains = before.gains

\* a losing lot after a winning one
C9_Witness ==
    \E dc \in Runs :
        /\ last.ev[dc] = "lot"
        /\ DLt(LastDetails(dc).realized, Dec(0))
        /\ DLt(Dec(0), last.before[dc].gains)
        /\ DLt(last.before[dc].losses, rep[dc].losses)

\* C10: an accepted Trade row with quantity < 0 adds proceeds / rate to prices when
\* it is read, one with quantity >= 0 leaves prices, and so does every other row.
C10_ProceedsOnTradeRows ==
    \A dc \in Runs :
        IF last.ev[dc] = "trade"
        THEN rep[dc].prices =
                 IF DLt(Number(dc, last.row, Field.QUANTITY), Dec(0))
                 THEN DAdd(last.before[dc].prices,
                           DDiv(Number(dc, last.row, Field.PROCEEDS), RowRate(dc, last.row)))
                 ELSE last.before[dc].prices
        ELSE rep[dc].prices = last.before[dc].prices

\* a second sale, converted from USD to EUR
C10_Witness ==
    \E dc \in Runs :
        /\ last.ev[dc] = "trade"
        /\ DLt(Number(dc, last.row, Field.QUANTITY), Dec(0))
        /\ RowRate(dc, last.row) # Dec(1)
        /\ DLt(Dec(0), last.before[dc].prices)
        /\ DLt(last.before[dc].prices, rep[dc].prices)

\* C11: a ClosedLot row whose cells are read without error and whose symbol differs
\* from the open Trade's symbol raises SymbolMismatch, naming the lot's date, the
\* Trade's symbol and the lot's symbol, also when its quantity does not fit the
\* Trade's either.
C11_SymbolMismatch ==
    \A dc \in Runs :
        (/\ last.kind[dc] = "lot"
         /\ opened[dc] # <<>>
         /\ row_data(last.row, rep[dc].options).ok
         /\ Cell(dc, last.row, Field.SYMBOL) # Cell(dc, opened[dc][1].row, Field.SYMBOL)) =>
            /\ last.ev[dc] = "raise"
            /\ err[dc] = "SymbolMismatch"
            /\ last.msg[dc] = <<Cell(dc, last.row, Field.DATE_TIME),
                                Cell(dc, opened[dc][1].row, Field.SYMBOL),
                                Cell(dc, last.row, Field.SYMBOL)>>

\* a lot of another symbol that would also close more than the Trade opened
C11_Witness ==
    \E dc \in Runs :
        /\ last.kind[dc] = "lot"
        /\ opened[dc] # <<>>
        /\ err[dc] = "SymbolMismatch"
        /\ last.msg[dc] = <<D2010, "UPST", "XXXX">>
        /\ DLt(DAbs(OpenQuantity(dc)),
               DAbs(DAdd(OpenQuantity(dc), Number(dc, last.row, Field.QUANTITY))))

\* the rows of a single-account input, and the same row with an Account column
SingleAccountRows == {SINGLE_ACCOUNT} \cup TradeRows \cup LotRows \cup OtherRows
InsertAccount(row) == IF row = SINGLE_ACCOUNT THEN MULTI_ACCOUNT ELSE WithAccount(row)

\* a Report that has read the multi-account input in place of the single-account one
Shifted(self) ==
    IF self.options.fields = NoFields
    THEN self
    ELSE [self EXCEPT !.options.fields = FieldsOf(MULTI_ACCOUNT), !.options.offset = 1]

\* the two layouts agree on a row: same use of the row, same Report or same error
SameOutcome(single, multi) ==
    /\ single.kind = multi.kind
    /\ IF single.res.ok
       THEN multi.res.ok /\ multi.res.val = Shifted(single.res.val)
       ELSE multi.res = single.res

C13_SameCurrencyIsOne ==
    /\ \A a \in Currencies, date_str \in LookupDates :
           get_rate(a, a, date_str) = Ok(Dec(1))
    /\ (lookup # <<>> /\ lookup.currency_from = lookup.currency_to) =>
           lookup.res = Ok(Dec(1))

\* an unknown code, an unparseable date and an empty table at once
C13_Witness ==
    /\ lookup # <<>>
    /\ rates = <<>>
    /\ lookup.currency_from = "KEKW" /\ lookup.currency_to = "KEKW"
    /\ lookup.date_str = DBad
    /\ lookup.res = Ok(Dec(1))

\* the ordinal of get_date(date_str), for a date string that parses
Ordinal(date_str) == ToOrdinal(DateTable[date_str])

\* no rate of the table is zero
NoZeroRate ==
    \A d \in DOMAIN rates : \A c \in DOMAIN rates[d] : ~DIsZero(DecimalLiteral[rates[d][c]])

ParsedLookupDates == LookupDates \cap DOMAIN DateTable

\* the table publishes no rate of `currency` on any of the days d - n .. d
Unpublished(currency, d, n) ==
    \A k \in 0..n : (d - k) \notin DOMAIN rates \/ currency \notin DOMAIN rates[d - k]

\* C15: for distinct currencies, when a non-EUR currency of the pair has no rate within
\* N = MAX_BACKTRACK_DAYS days of the date d, get_rate raises RateNotFound and returns no
\* value, the search having ended N days before d; with N = 0 a lookup whose rate for
\* d itself is missing fails with the search ended at d.
C15_BacktrackBound ==
    \A a \in Currencies, b \in Currencies, date_str \in ParsedLookupDates :
        LET d == Ordinal(date_str)
            res == get_rate(a, b, date_str)
        IN  (/\ a # b
             /\ \/ a # "EUR" /\ Unpublished(a, d, backtrack)
                \/ b # "EUR" /\ Unpublished(b, d, backtrack)) =>
                /\ res = RaiseMsg("RateNotFound", <<a, b, d, d - backtrack>>)
                /\ backtrack = 0 => res.msg[4] = d

\* the default window, one currency of the pair published on the date and the other
\* never
C15_Witness ==
    /\ lookup # <<>>
    /\ backtrack = MAX_BACKTRACK_DAYS
    /\ lookup.currency_from = "USD" /\ lookup.currency_to = "SEK"
    /\ lookup.date_str \in ParsedLookupDates
    /\ get_rate("EUR", "USD", lookup.date_str).ok
    /\ Unpublished("SEK", Ordinal(lookup.date_str), backtrack)
    /\ ~lookup.res.ok /\ lookup.res.err = "RateNotFound"

\* C16 as stated: each currency of the pair is resolved independently, from the most
\* recent date of the window on which that currency has a rate, whether or not the
\* other currency has one on that date, and the result is toRate / fromRate of the
\* two rates so found.
C16_IndependentResolution ==
    \A a \in Currencies, b \in Currencies, date_str \in ParsedLookupDates :
        LET d == Ordinal(date_str)
        IN  (a # b /\ RateOf(a, d, d).ok /\ RateOf(b, d, d).ok) =>
                get_rate(a, b, date_str) = Divide(RateOf(b, d, d).val, RateOf(a, d, d).val)

\* the days back from d, within the window, on which the table has a rate of every
\* non-EUR currency of the pair
JointDaysOf(a, b, d) ==
    {k \in 0..(backtrack - 1) :
        /\ a = "EUR" \/ ~Unpublished(a, d - k, 0)
        /\ b = "EUR" \/ ~Unpublished(b, d - k, 0)}

\* C16, amended: the two currencies are resolved jointly.  Both rates are taken from
\* the most recent date of the window on which every non-EUR currency of the pair has
\* a rate, and the result is toRate / fromRate of that one date; without such a date
\* get_rate raises RateNotFound, also when each currency has a rate on some date of
\* the window.
C16_JointResolution ==
    \A a \in Currencies, b \in Currencies, date_str \in ParsedLookupDates :
        LET d == Ordinal(date_str)
            days == JointDaysOf(a, b, d)
            k == CHOOSE k \in days : \A j \in days : k <= j
            rate_of(c) == IF c = "EUR" THEN Dec(1) ELSE DecimalLiteral[rates[d - k][c]]
        IN  a # b =>
                IF days = {}
                THEN ~get_rate(a, b, date_str).ok /\ get_rate(a, b, date_str).err = "RateNotFound"
                ELSE get_rate(a, b, date_str) = Divide(rate_of(b), rate_of(a))

\* USD has a rate on the date itself, SEK only on the day before: the lookup takes
\* both rates of the day before, 10 / 1.25, where the rates found independently
\* give 10 / 2
C16_Witness ==
    /\ lookup # <<>>
    /\ lookup.currency_from = "USD" /\ lookup.currency_to = "SEK"
    /\ lookup.date_str = "2020-03-04"
    /\ RateOf("USD", Ordinal("2020-03-04"), Ordinal("2020-03-04")) = Ok(Dec(2))
    /\ RateOf("SEK", Ordinal("2020-03-04"), Ordinal("2020-03-04")) = Ok(Dec(10))
    /\ lookup.res = Ok(Dec(8))

\* what holds of a download_official_rates call at each of its steps
DownloadInvariant ==
    /\ dl.fetches <= MAX_HTTP_RETRIES + 1
    /\ dl.pc = "fetching" => dl.fetches = dl.retries /\ rates = dl.before
    /\ dl.pc = "failed" => dl.fetches = MAX_HTTP_RETRIES + 1 /\ rates = dl.before
    /\ dl.pc = "done" =>
          /\ dl.fetches = dl.retries + 1
          /\ \E rates_zip \in Archives :
                rates = ParseArchive(dl.before, rates_zip, Len(rates_zip))

\* C17: download_official_rates makes the first fetch and at most MAX_HTTP_RETRIES = 5
\* more after HTTP errors; when every fetch fails it raises "Maximum number of retries
\* exceeded" and the table is as it was; when a fetch succeeds the archive is parsed
\* and no further fetch is made; the loop ends in every case.
C17_FetchRetryCeiling ==
    /\ []DownloadInvariant
    /\ (dl.pc = "fetching") ~> (dl.pc \in {"done", "failed"})

\* the fetch succeeds at the last retry, on a table that already holds rates
C17_Witness ==
    /\ dl.pc = "done"
    /\ dl.retries = MAX_HTTP_RETRIES
    /\ dl.before # <<>>
    /\ rates # dl.before

(***************************************************************************)
(* Claims about the cache and the Storage object, over StoreSpec.          *)
(***************************************************************************)

\* the keys of a cache in the order of insertion
KeyOrder(c) == [i \in 1..Len(c) |-> c[i][1]]

\* Cache.get, and Cache.set of a key that is present, evict nothing and leave the
\* order of the keys as it was
NoEvictionOtherwise ==
    /\ call.name \in {"get", "get None"} => cache = call.cache
    /\ (call.name = "set" /\ call.key \in CacheKeys(call.cache)) =>
          /\ KeyOrder(cache) = KeyOrder(call.cache)
          /\ Cache_get(cache, call.key).val = call.content

\* C18 as stated: when Cache.set inserts a key that is not present and the cache holds
\* capacity-many entries, exactly one entry is evicted, the one inserted earliest of
\* those present; Cache.get and Cache.set of a present key evict nothing and leave
\* the order as it was.
C18_EvictionOrder ==
    /\ (/\ call.name = "set"
        /\ call.key \notin CacheKeys(call.cache)
        /\ Len(call.cache) >= maxcache) =>
            /\ call.cache # <<>>
            /\ cache = Append(Tail(call.cache), <<call.key, call.content>>)
    /\ NoEvictionOtherwise

\* C18, amended: the eviction of exactly one entry, the earliest inserted, takes place
\* when the cache holds at least one entry; with capacity 0 and an empty cache nothing
\* is evicted and the new entry is inserted all the same.
C18_EvictionOrderNonEmpty ==
    /\ (/\ call.name = "set"
        /\ call.key \notin CacheKeys(call.cache)
        /\ Len(call.cache) >= maxcache) =>
            IF call.cache # <<>>
            THEN cache = Append(Tail(call.cache), <<call.key, call.content>>)
            ELSE maxcache = 0 /\ cache = <<<<call.key, call.content>>>>
    /\ (/\ call.name = "set"
        /\ call.key \notin CacheKeys(call.cache)
        /\ Len(call.cache) < maxcache) =>
            cache = Append(call.cache, <<call.key, call.content>>)
    /\ NoEvictionOtherwise

\* a third key set into a cache of capacity 2 that holds two: the first is evicted
C18_Witness ==
    /\ call.name = "set"
    /\ maxcache = 2 /\ Len(call.cache) = 2
    /\ call.key \notin CacheKeys(call.cache)
    /\ KeyOrder(cache) = <<call.cache[2][1], call.key>>

\* C19: Storage.load of a filename that was never saved (nor set into the cache by a
\* direct Cache.set) returns the empty table, with each of the four backends and with
\* caching on or off, and leaves the cache as it was.
C19_LoadMiss ==
    (call.name = "load" /\ call.key \notin ghost.touched) =>
        /\ call.ret = EmptyTable
        /\ cache = call.cache
        /\ call.key \notin DOMAIN files

\* a miss on a caching S3 object whose bucket and cache hold another file
C19_Witness ==
    /\ call.name = "load" /\ call.key \notin ghost.touched
    /\ storage.class = "AmazonS3" /\ storage.cache
    /\ DOMAIN files # {} /\ cache # <<>>
    /\ call.ret = EmptyTable

\* the table last saved under a filename, the empty table if none was
LastSaved(filename) ==
    IF filename \in DOMAIN ghost.saved THEN ghost.saved[filename] ELSE EmptyTable

\* C20: with a persistent backend (local, S3, GCS) and caching off, or the cache empty,
\* load(filename) returns the table last saved under that filename, whatever was
\* saved under other filenames since; every backend holds encode(table) of what was
\* saved, and decode(encode(t)) = t for every table t.
C20_SaveLoadRoundTrip ==
    /\ (/\ call.name = "load"
        /\ storage.class \in PersistentClasses
        /\ ~storage.cache \/ call.cache = <<>>) =>
            call.ret = LastSaved(call.key)
    /\ storage.class \in PersistentClasses =>
          /\ DOMAIN files = DOMAIN ghost.saved
          /\ \A f \in DOMAIN files : files[f] = encode(ghost.saved[f])
    /\ \A t \in Tables : decode(encode(t)) = t

\* two filenames saved on a GCS object that does not cache, the first then loaded
C20_Witness ==
    /\ call.name = "load"
    /\ storage.class = "GoogleCloudStorage" /\ ~storage.cache
    /\ Cardinality(DOMAIN ghost.saved) = 2
    /\ call.ret # EmptyTable
    /\ \E f \in DOMAIN ghost.saved : ghost.saved[f] # call.ret

(***************************************************************************)
(* Claims about the selection of the backend, over SelectSpec.             *)
(***************************************************************************)

\* the storage type of the last get_storage call: its argument, or the configured
\* STORAGE_TYPE when the argument is None; a member of StorageType when it is one of
\* the four
SelectedType ==
    IF selected[1].storage_type # None THEN selected[1].storage_type
    ELSE IF config.STORAGE_TYPE \in StorageTypes THEN Member(config.STORAGE_TYPE)
    ELSE Str(config.STORAGE_TYPE)

\* aws and gcp give their class; the other types give a ValueError when a bucket
\* identifier is configured, and local and disabled their class when none is
SelectionOfTheFour ==
    /\ SelectedType = Member("aws") => selected[1].res = Ok("AmazonS3")
    /\ SelectedType = Member("gcp") => selected[1].res = Ok("GoogleCloudStorage")
    /\ (SelectedType \notin {Member("aws"), Member("gcp")} /\ config.BUCKET_ID # "") =>
          ~selected[1].res.ok /\ selected[1].res.err \in ConfigurationErrors
    /\ (SelectedType = Member("local") /\ config.BUCKET_ID = "") =>
          selected[1].res = Ok("LocalStorage")
    /\ (SelectedType = Member("disabled") /\ config.BUCKET_ID = "") =>
          selected[1].res = Ok("StorageDisabled")

\* C21 as stated: get_storage returns the class of the storage type (aws, gcp, local,
\* disabled); with a bucket identifier configured and a type that is neither aws nor
\* gcp it fails with a ValueError; a type outside the four, without a bucket
\* identifier, fails with NotImplementedError.
C21_BackendSelection ==
    selected # <<>> =>
        /\ SelectionOfTheFour
        /\ (SelectedType.kind # "StorageType" /\ config.BUCKET_ID = "") =>
              selected[1].res = Raise("NotImplementedError")

\* C21, amended: a type outside the four, without a bucket identifier, fails with
\* NotImplementedError when it is the argument of get_storage, and with the ValueError
\* of the enumeration when it is the configured STORAGE_TYPE, get_storage being called
\* without an argument.
C21_BackendSelectionBySource ==
    selected # <<>> =>
        /\ SelectionOfTheFour
        /\ (SelectedType.kind # "StorageType" /\ config.BUCKET_ID = "") =>
              selected[1].res = IF selected[1].storage_type = None
                                THEN Raise("InvalidStorageType")
                                ELSE Raise("NotImplementedError")

\* get_storage() with STORAGE_TYPE set to a value outside the four and no bucket
C21_Witness ==
    /\ selected # <<>>
    /\ selected[1].storage_type = None
    /\ config = [BUCKET_ID |-> "", STORAGE_TYPE |-> "azure"]
    /\ selected[1].res = Raise("InvalidStorageType")

(***************************************************************************)
(* More claims about the ledger, over Spec.                                *)
(***************************************************************************)

\* C22: every eligible Trade or ClosedLot row whose Date/Time cell has none of the
\* three formats ends the call with an error, and a Trade row with InvalidDate, for
\* every report currency, row currency and setting of the deemed-cost option.
C22_InvalidDate ==
    \A dc \in Runs :
        (/\ last.kind[dc] \in {"trade", "lot"}
         /\ ~get_date(Cell(dc, last.row, Field.DATE_TIME)).ok) =>
            /\ last.ev[dc] = "raise"
            /\ last.kind[dc] = "trade" => err[dc] = "InvalidDate"

\* the last event is the decoder failing on the input of Report dc
EncodingFailure(dc) ==
    last.ev[dc] = "raise" /\ last.kind[dc] = "none" /\ last.row = <<>>

\* C23: input that is not UTF-8 ends the add_trades call with the one error
\* InvalidEncoding, a ValueError, wherever the bytes stand in the input: before any
\* row, or after rows that opened a Trade and closed lots; the Report is left as the
\* rows before the bytes made it.
C23_InvalidEncoding ==
    \A dc \in Runs :
        EncodingFailure(dc) =>
            /\ pc[dc] = "raised"
            /\ err[dc] = "InvalidEncoding"
            /\ err[dc] \in ValueErrors
            /\ rep[dc] = last.before[dc]

\* the bytes come after a Trade row and a ClosedLot row were read
C23_Witness ==
    /\ \A dc \in Runs : EncodingFailure(dc) /\ err[dc] = "InvalidEncoding"
    /\ rep[FALSE].trade # <<>>
    /\ rep[FALSE].details # <<>>

\* the lots of the Trade seen so far close less than it opened
UnderClosed(trade) == DLt(DAbs(trade.closed_quantity), DAbs(trade.data.quantity))

\* C24: a Trade followed by no ClosedLot rows, or by ClosedLot rows that close less
\* than its quantity, is no cause of an error when the next Trade row, a header row
\* or the end of the input arrives: the header row and the end of the input are
\* accepted and leave prices, gains, losses and details as they are, the next Trade
\* row fares as it would with no Trade open, and a call that saw no ClosedLot row
\* ends with the gains and losses it began with.
C24_OpenTradeLeft ==
    \A dc \in Runs :
        LET before == last.before[dc]
            fresh == handle_one_line([before EXCEPT !.trade = <<>>], last.row).res
        IN  (before.trade # <<>> /\ UnderClosed(before.trade[1])) =>
                /\ last.kind[dc] = "header" =>
                      last.ev[dc] = "header" /\ Totals(rep[dc]) = Totals(before)
                /\ last.ev[dc] = "eof" =>
                      /\ pc[dc] = "idle" /\ err[dc] = ""
                      /\ Totals(rep[dc]) = Totals(before)
                      /\ rep[dc].details = pre[dc].details =>
                            rep[dc].gains = pre[dc].gains /\ rep[dc].losses = pre[dc].losses
                /\ last.kind[dc] = "trade" =>
                      IF fresh.ok
                      THEN last.ev[dc] = "trade" /\ rep[dc] = fresh.val
                      ELSE last.ev[dc] = "raise" /\ err[dc] = fresh.err

\* a second Trade row read while a short sale is open that no lot has covered, the
\* proceeds of both counted and no gains or losses
C24_Witness ==
    /\ last.ev[FALSE] = "trade"
    /\ last.before[FALSE].trade # <<>>
    /\ DIsZero(last.before[FALSE].trade[1].closed_quantity)
    /\ DLt(last.before[FALSE].trade[1].data.quantity, Dec(0))
    /\ DLt(Dec(0), last.before[FALSE].prices)
    /\ DLt(last.before[FALSE].prices, rep[FALSE].prices)
    /\ DIsZero(rep[FALSE].gains) /\ DIsZero(rep[FALSE].losses)

\* the Report after a header row, as the claim has it
AfterHeader(self, header) ==
    [self EXCEPT !.options.fields = FieldsOf(header),
                 !.options.offset = IF header = MULTI_ACCOUNT THEN 1 ELSE 0,
                 !.trade = <<>>]

\* C25: a header row re-derives the field layout, clears the open Trade and changes
\* nothing else: prices, gains, losses and details stay, and an eligible ClosedLot row
\* that follows raises ClosedLotWithoutTrade, also when a Trade row of its symbol came
\* before the header row.
C25_HeaderClearsTrade ==
    \A dc \in Runs :
        /\ last.ev[dc] = "header" =>
              /\ rep[dc].trade = <<>>
              /\ Totals(rep[dc]) = Totals(last.before[dc])
              /\ \E header \in {SINGLE_ACCOUNT, MULTI_ACCOUNT} :
                    rep[dc] = AfterHeader(last.before[dc], header)
        /\ pc[dc] = "reading" =>
              \A header \in {SINGLE_ACCOUNT, MULTI_ACCOUNT} :
                  LET after == handle_one_line(rep[dc], header)
                  IN  /\ after.kind = "header"
                      /\ after.res = Ok(AfterHeader(rep[dc], header))
                      /\ \A items \in Rows :
                            handle_one_line(after.res.val, items).kind = "lot" =>
                                handle_one_line(after.res.val, items).res
                                    = Raise("ClosedLotWithoutTrade")

\* a header row read while a Trade is open that has a lot in details, and a ClosedLot
\* row of the Trade's symbol that would have been accepted without the header row
C25_Witness ==
    \E dc \in Runs :
        /\ last.ev[dc] = "header"
        /\ last.before[dc].trade # <<>>
        /\ rep[dc].details # <<>>
        /\ DLt(Dec(0), rep[dc].prices)
        /\ \E items \in LotRows :
              /\ handle_one_line(last.before[dc], items).kind = "lot"
              /\ handle_one_line(last.before[dc], items).res.ok
              /\ handle_one_line(rep[dc], items).res = Raise("ClosedLotWithoutTrade")

\* C26: a Report that has seen no header row ignores every row, those of the shape of
\* Trade and ClosedLot rows too: the row raises no error and leaves prices, gains,
\* losses, details and the open Trade as they are.
C26_NoLayoutNoRows ==
    \A dc \in Runs :
        /\ (pc[dc] = "reading" /\ rep[dc].options.fields = NoFields) =>
              \A items \in Rows \ {SINGLE_ACCOUNT, MULTI_ACCOUNT} :
                  handle_one_line(rep[dc], items) = [kind |-> "skip", res |-> Ok(rep[dc])]
        /\ (last.before[dc].options.fields = NoFields /\ last.kind[dc] # "header") =>
              /\ last.kind[dc] \in {"skip", "none"}
              /\ rep[dc] = last.before[dc]
              /\ last.ev[dc] = "raise" => EncodingFailure(dc)

\* a row read and passed over by Reports that have no layout and no Trade
C26_Witness ==
    \A dc \in Runs :
        /\ pc[dc] = "reading"
        /\ last.kind[dc] = "skip"
        /\ rep[dc].options.fields = NoFields
        /\ rep[dc].trade = <<>> /\ rep[dc].details = <<>>
        /\ \E items \in TradeRows : handle_one_line(rep[dc], items).kind = "skip"

\* the conditions under which a row is no trade: its column count is not the width of
\* the layout, or its first two cells are not "Trades" and "Data", or its
\* discriminator is neither Trade nor ClosedLot, or its asset category is neither
\* Stocks nor Equity and Index Options
WrongWidth(self, items) == Len(items) # Cardinality(DOMAIN self.options.fields)
WrongMarker(items) == <<items[1], items[2]>> # <<"Trades", "Data">>
WrongDiscriminator(items) == items[3] \notin {"Trade", "ClosedLot"}
WrongAsset(items) == items[4] \notin {"Stocks", "Equity and Index Options"}

Ineligible(self, items) ==
    \/ WrongWidth(self, items)
    \/ WrongMarker(items)
    \/ WrongDiscriminator(items)
    \/ WrongAsset(items)

\* C27: a row that is no header row and fails a condition of eligibility is passed
\* over: no error is raised, no Trade is made of it (so no rate is looked up), and
\* prices, gains, losses, details, the layout and the open Trade with its closed
\* quantity stay as they are.
C27_IneligibleRowsSkipped ==
    \A dc \in Runs :
        /\ (pc[dc] = "reading" /\ rep[dc].options.fields # NoFields) =>
              \A items \in Rows \ {SINGLE_ACCOUNT, MULTI_ACCOUNT} :
                  Ineligible(rep[dc], items) =>
                      handle_one_line(rep[dc], items) = [kind |-> "skip", res |-> Ok(rep[dc])]
        /\ last.kind[dc] = "skip" =>
              /\ last.ev[dc] = "skip"
              /\ rep[dc] = last.before[dc]
              /\ pc[dc] = "reading"

\* a row passed over while a Trade is open of which a lot is closed, by a Report
\* that would pass over rows for each of the four reasons
C27_Witness ==
    \E dc \in Runs :
        /\ last.kind[dc] = "skip"
        /\ rep[dc].trade # <<>>
        /\ ~DIsZero(rep[dc].trade[1].closed_quantity)
        /\ \E items \in Rows : WrongWidth(rep[dc], items)
        /\ \E items \in Rows :
              ~WrongWidth(rep[dc], items) /\ WrongMarker(items)
        /\ \E items \in Rows :
              ~WrongWidth(rep[dc], items) /\ ~WrongMarker(items) /\ WrongDiscriminator(items)
        /\ \E items \in Rows :
              /\ ~WrongWidth(rep[dc], items) /\ ~WrongMarker(items)
              /\ ~WrongDiscriminator(items) /\ WrongAsset(items)

SameSign(x, y) ==
    \/ DLt(x, Dec(0)) /\ DLt(y, Dec(0))
    \/ DLt(Dec(0), x) /\ DLt(Dec(0), y)

\* C28: every ClosedLot row that is accepted has a quantity of the sign opposite to
\* that of its Trade and of an absolute value no greater than that of its Trade.
C28_SingleLotBound ==
    \A dc \in Runs :
        (last.kind[dc] = "lot" /\ last.ev[dc] = "lot") =>
            LET trade == last.before[dc].trade[1]
                lot == row_data(last.row, last.before[dc].options).val
            IN  /\ ~SameSign(trade.data.quantity, lot.quantity)
                /\ DLe(DAbs(lot.quantity), DAbs(trade.data.quantity))

\* the day ten calendar years before a date: the same month and day, and 28 February
\* for a 29 February when the year ten years before is no leap year
TenYearsBefore(d) ==
    <<d[1] - 10, d[2], IF d[2] = 2 /\ d[3] = 29 /\ ~IsLeap(d[1] - 10) THEN 28 ELSE d[3]>>

DeemedFactor(buy_date, sell_date) ==
    IF ToOrdinal(DateTable[buy_date]) <= ToOrdinal(TenYearsBefore(DateTable[sell_date]))
    THEN Decimal06
    ELSE Decimal08

\* C29: the factor of the deemed cost is Decimal(0.6) exactly when the buy date is
\* no later than the day ten calendar years before the sell date (28 February for a
\* 29 February) and Decimal(0.8) otherwise, so also for a lot bought a day later and
\* for a short position bought after it was sold; the lots a Report with deemed cost
\* accepts are valued with that factor.
C29_DeemedCostFactor ==
    /\ \A buy_date \in DOMAIN DateTable, sell_date \in DOMAIN DateTable :
          deemed_profit(Dec(1000), buy_date, sell_date)
              = Ok(DMul(DeemedFactor(buy_date, sell_date), Dec(1000)))
    /\ last.ev[TRUE] = "lot" =>
          LET d == LastDetails(TRUE)
          IN  d.realized = DMin(ActualRealized(TRUE),
                                DMul(DeemedFactor(d.buy_date, d.sell_date), d.price))

\* shares sold on 29 February 2020 that were bought on 28 February 2010, valued at
\* Decimal(0.6) of their price, while shares bought a day later would be valued at
\* Decimal(0.8), as shares sold short are
C29_Witness ==
    /\ last.ev[TRUE] = "lot"
    /\ LastDetails(TRUE).sell_date = DLeap
    /\ LastDetails(TRUE).buy_date = D2010c
    /\ LastDetails(TRUE).realized = DMul(Decimal06, LastDetails(TRUE).price)
    /\ DLt(LastDetails(TRUE).realized, ActualRealized(TRUE))
    /\ deemed_profit(LastDetails(TRUE).price, D2010d, DLeap)
          = Ok(DMul(Decimal08, LastDetails(TRUE).price))
    /\ deemed_profit(LastDetails(TRUE).price, D2020, D2010)
          = Ok(DMul(Decimal08, LastDetails(TRUE).price))

\* the table dates on which a lookup of the pair can be satisfied: the table has a
\* rate of every non-EUR currency of the pair
SatisfiedOn(a, b) ==
    {e \in DOMAIN rates :
        /\ a = "EUR" \/ a \in DOMAIN rates[e]
        /\ b = "EUR" \/ b \in DOMAIN rates[e]}

\* toRate / fromRate of the rates of the table date e
RateOn(a, b, e) ==
    DDiv(IF b = "EUR" THEN Dec(1) ELSE DecimalLiteral[rates[e][b]],
         IF a = "EUR" THEN Dec(1) ELSE DecimalLiteral[rates[e][a]])

\* C30: when get_rate returns a value for distinct currencies and the date d, the
\* value is that of the latest table date at or before d on which the lookup can be
\* satisfied: no date after d is used, and no older date when a more recent one at or
\* before d has the rates needed.
C30_MostRecentFirst ==
    \A a \in Currencies, b \in Currencies, date_str \in ParsedLookupDates :
        LET d == Ordinal(date_str)
            res == get_rate(a, b, date_str)
            upto == {e \in SatisfiedOn(a, b) : e <= d}
        IN  (a # b /\ res.ok) =>
                /\ upto # {}
                /\ res = Ok(RateOn(a, b, CHOOSE e \in upto : \A f \in upto : f <= e))

\* EUR to USD on 3 March 2020 in a table with USD rates of 4 March, 3 March and
\* 27 February: the rate of 3 March is returned, which neither of the others equals
C30_Witness ==
    /\ lookup # <<>>
    /\ lookup.currency_from = "EUR" /\ lookup.currency_to = "USD"
    /\ lookup.date_str = "2020-03-03"
    /\ {Ordinal("2020-03-04"), Ordinal("2020-03-03"), Ordinal("2020-02-27")}
          \subseteq SatisfiedOn("EUR", "USD")
    /\ lookup.res = Ok(RateOn("EUR", "USD", Ordinal("2020-03-03")))
    /\ lookup.res # Ok(RateOn("EUR", "USD", Ordinal("2020-03-04")))
    /\ lookup.res # Ok(RateOn("EUR", "USD", Ordinal("2020-02-27")))

\* C31: with maximum lookback N, get_rate examines the dates d, d-1, ..., d-N: a
\* lookup for distinct currencies returns a value exactly when the rates needed are
\* published on one of these dates, so a rate published N days before d is found,
\* and with N = 0 the lookup succeeds exactly when they are published on d itself.
C31_InclusiveWindow ==
    \A a \in Currencies, b \in Currencies, date_str \in ParsedLookupDates :
        LET d == Ordinal(date_str)
        IN  a # b =>
                (get_rate(a, b, date_str).ok
                    <=> \E k \in 0..backtrack : (d - k) \in SatisfiedOn(a, b))

\* the table read row by row from row i on: `currencies` are the codes of the
\* columns, fixed by the first row whose first cell is "Date" and, if `again`, fixed
\* anew by every later such row; a row whose first cell is an ISO date gives its date
\* the pairs of the columns whose cell is numeric, if there is one
RECURSIVE ReadRows(_, _, _, _, _)
ReadRows(rates_file, i, currencies, table, again) ==
    IF i > Len(rates_file)
    THEN table
    ELSE LET items == rates_file[i]
             codes == IF items[1] = "Date" /\ (again \/ currencies = <<>>)
                      THEN items ELSE currencies
             numeric == {k \in 1..Len(items) : k <= Len(codes) /\ is_number(items[k])}
             pairs == [c \in {codes[k] : k \in numeric} |->
                          items[CHOOSE k \in numeric : codes[k] = c]]
         IN  ReadRows(rates_file, i + 1, codes,
                      IF codes # <<>> /\ items[1] \in IsoDateStrings /\ numeric # {}
                      THEN (Ordinal(items[1]) :> pairs) @@ table
                      ELSE table,
                      again)

\* the table read from the one or two files of an archive, into an empty table
ReadArchive(rates_zip, again) ==
    LET first == ReadRows(rates_zip[1], 1, <<>>, <<>>, again)
    IN  IF Len(rates_zip) = 1 THEN first
        ELSE ReadRows(rates_zip[2], 1, <<>>, first, again)

\* C32 as stated: the first row whose first cell is "Date" fixes the currency code of
\* each column, the rows before it are ignored, and every later row whose first cell
\* is an ISO date gives its date exactly the pairs of the columns whose cell is
\* numeric; a date row without a numeric cell adds no entry.
C32_FirstHeaderFixesColumns ==
    /\ \A rates_zip \in Archives : \A n \in 1..Len(rates_zip) :
          FileRates(rates_zip[n]) = ReadRows(rates_zip[n], 1, <<>>, <<>>, FALSE)
    /\ (dl.pc = "done" /\ dl.before = <<>>) =>
          \E rates_zip \in Archives : rates = ReadArchive(rates_zip, FALSE)

\* C32, amended: every row whose first cell is "Date" fixes the currency code of each
\* column for the rows after it, up to the next such row; the rows before the first
\* are ignored, and every later row whose first cell is an ISO date gives its date
\* exactly the pairs of the columns whose cell is numeric; a date row without a
\* numeric cell adds no entry.
C32_LatestHeaderFixesColumns ==
    /\ \A rates_zip \in Archives : \A n \in 1..Len(rates_zip) :
          FileRates(rates_zip[n]) = ReadRows(rates_zip[n], 1, <<>>, <<>>, TRUE)
    /\ (dl.pc = "done" /\ dl.before = <<>>) =>
          \E rates_zip \in Archives : rates = ReadArchive(rates_zip, TRUE)

\* the first table built from the payload with two header rows: nothing of the row
\* before the first header, nothing for the date without a numeric cell, USD alone
\* for the date whose SEK cell is N/A, and the last row read by the second header
C32_Witness ==
    /\ dl.pc = "done"
    /\ dl.before = <<>>
    /\ rates = (Ordinal("2020-03-03") :> ("USD" :> "1.25" @@ "SEK" :> "10"))
                @@ (Ordinal("2020-02-26") :> ("USD" :> "2"))
                @@ (Ordinal("2020-03-04") :> ("SEK" :> "10" @@ "USD" :> "2"))

\* the table `after` is the table `before` with the table `added` laid over it date
\* by date
Overlaid(before, added, after) ==
    /\ DOMAIN after = DOMAIN before \cup DOMAIN added
    /\ \A d \in DOMAIN before \ DOMAIN added : after[d] = before[d]
    /\ \A d \in DOMAIN added : after[d] = added[d]

\* C33: when a payload is added to a table built from an earlier one, every date of
\* the earlier table that the payload lacks keeps its currencies, every date of the
\* payload has the currencies of the payload, and no date is removed; a currency
\* that a date of both had only in the earlier table is gone.
C33_MergeByDate ==
    dl.pc = "done" =>
        \E rates_zip \in Archives :
            /\ Overlaid(dl.before, ReadArchive(rates_zip, TRUE), rates)
            /\ \A d \in DOMAIN dl.before \cap DOMAIN ReadArchive(rates_zip, TRUE) :
                  \A c \in DOMAIN dl.before[d] \ DOMAIN ReadArchive(rates_zip, TRUE)[d] :
                      c \notin DOMAIN rates[d]

\* a payload with the USD rate of 4 March 2020 alone added to a table that had USD
\* and SEK on that date and two dates more: SEK of that date is gone, the other dates
\* are as they were
C33_Witness ==
    /\ dl.pc = "done"
    /\ dl.before = ReadArchive(<<TwoHeaders>>, TRUE)
    /\ DOMAIN dl.before[Ordinal("2020-03-04")] = {"USD", "SEK"}
    /\ rates[Ordinal("2020-03-04")] = ("USD" :> "2")
    /\ DOMAIN rates = DOMAIN dl.before
    /\ rates[Ordinal("2020-03-03")] = dl.before[Ordinal("2020-03-03")]
    /\ rates[Ordinal("2020-02-26")] = dl.before[Ordinal("2020-02-26")]

\* C34: every rate the table holds is a positive number, so that no lookup fails on
\* a division by a rate: a lookup returns a value or raises a ValueError.
C34_PositiveRates ==
    /\ \A d \in DOMAIN rates : \A c \in DOMAIN rates[d] :
          DLt(Dec(0), DecimalLiteral[rates[d][c]])
    /\ lookup # <<>> => (lookup.res.ok \/ lookup.res.err \in ValueErrors)

\* C35: with caching enabled, once save has written a non-empty table under a key, or
\* load has read one from the backend, the table is in the cache under that key, and
\* a load of a key whose non-empty table is in the cache returns that table and
\* leaves the cache as it is, whatever the backend holds.
C35_CachePopulation ==
    /\ (call.name = "save" /\ storage.cache /\ call.content # EmptyTable) =>
          /\ Cache_get(cache, call.key) = [none |-> FALSE, val |-> call.content]
          /\ LoadReturn(storage, call.key) = call.content
    /\ (call.name = "load" /\ storage.cache /\ call.ret # EmptyTable) =>
          /\ Cache_get(cache, call.key) = [none |-> FALSE, val |-> call.ret]
          /\ LoadReturn(storage, call.key) = call.ret
    /\ (/\ call.name = "load" /\ storage.cache
        /\ Cache_get(call.cache, call.key).val # EmptyTable) =>
          /\ call.ret = Cache_get(call.cache, call.key).val
          /\ cache = call.cache

\* a load that returns the table saved before, from the cache of two entries, while
\* the backend holds nothing under the key
C35_Witness ==
    /\ call.name = "load" /\ storage.cache
    /\ storage.class = "StorageDisabled"
    /\ BackendLoad(storage, call.key) = EmptyTable
    /\ call.ret = Table2
    /\ ghost.saved = (call.key :> Table2)
    /\ Len(cache) = 2

\* C36: the rate table is fetched and built at most once on a date: a Report
\* constructed after an ExchangeRates object was built on the date downloads nothing
\* and reads nothing from the storage backend.
C36_BuiltOncePerDate ==
    (made.by = "report" /\ made.earlier > 0) => (~made.download /\ ~made.read)

\* C37 as stated: the number of cached entries never exceeds the capacity _MAXCACHE,
\* whatever the capacity, 0 included.
C37_CapacityBound == Len(cache) <= maxcache

\* C37, amended: the number of cached entries never exceeds the capacity _MAXCACHE
\* when that is 1 or more, and never exceeds 1 when the capacity is 0.
C37_CapacityBoundAboveZero == Len(cache) <= IF maxcache = 0 THEN 1 ELSE maxcache

\* a new key set into a cache that was full: the cache is full again
C37_Witness ==
    /\ call.name = "set"
    /\ maxcache > 0
    /\ Len(call.cache) = maxcache
    /\ call.key \notin CacheKeys(call.cache)
    /\ call.key \in CacheKeys(cache)
    /\ Len(cache) = maxcache

\* C38: in every interleaving of the steps of Cache.set and Cache.get calls of two
\* threads the cache stays within its capacity, no call raises, and every key whose
\* set has returned and that no eviction has deleted since is in the cache.
C38_ThreadSafeCache ==
    /\ Len(cache) <= maxcache
    /\ ~thread.raised
    /\ (thread.set \ thread.evicted) \subseteq CacheKeys(cache)

\* C39 as stated: when only save and load have been called, a load returns what it
\* returns with the cache disabled, which is what the backend holds under the key;
\* the disabled backend returns the empty table from every load.
C39_CacheTransparent ==
    (ghost.plain /\ call.name = "load") =>
        /\ call.ret = BackendLoad(storage, call.key)
        /\ storage.class = "StorageDisabled" => call.ret = EmptyTable

\* C39, amended: when only save and load have been called, a load on a backend that
\* persists returns what it returns with the cache disabled, which is what the
\* backend holds under the key; the disabled backend returns the empty table from
\* every load with the cache disabled, and with the cache enabled the table last
\* saved under the key as long as that is cached.
C39_CacheTransparentIfPersistent ==
    (ghost.plain /\ call.name = "load") =>
        IF storage.class \in PersistentClasses
        THEN call.ret = BackendLoad(storage, call.key)
        ELSE call.ret = IF storage.cache /\ call.key \in CacheKeys(call.cache)
                        THEN ghost.saved[call.key]
                        ELSE EmptyTable

\* a load from the cache of a backend that persists, of a key saved twice: the
\* table saved last, which the backend holds too
C39_Witness ==
    /\ ghost.plain /\ call.name = "load"
    /\ storage.cache /\ storage.class = "LocalStorage"
    /\ Cache_get(call.cache, call.key).val = Table2
    /\ call.ret = Table2
    /\ ghost.calls = 3
    /\ BackendLoad(storage, call.key) = Table2

\* C40: every failure of Report.add_trades on an input row is a ValueError, the one
\* kind of error that the web layer answers with a client error: a Trade row of
\* quantity 0 followed by a ClosedLot row and a cell that is no number included,
\* nothing else escapes.
C40_OnlyValueErrors ==
    \A dc \in DOMAIN pc :
        pc[dc] = "raised" => err[dc] \in ValueErrors
====
